---- MODULE Spec2Model ----
(***************************************************************************)
(* Signal scoring and fusion of the alerting backend:                       *)
(*   backend/app/services/alert_manager.py  (AlertManager)                  *)
(*   backend/app/services/ml_service.py     (MLService scorers)             *)
(*   backend/app/api/ingest.py              (process_event_async)           *)
(*   backend/app/api/models.py              (POST /models/predict)          *)
(*                                                                          *)
(* Fixed point.  Python floats are modelled as exact integers:              *)
(*   scores               in units of 1e-4   (1.0 = 10000)                  *)
(*   weights, confidences,                                                  *)
(*   thresholds           in units of 1e-2   (0.85 = 85)                    *)
(*   weighted scores      in units of 1e-6   (score * weight)               *)
(*   times                in minutes                                        *)
(* A mean sum/len is kept as the fraction [num, den] and compared by        *)
(* cross-multiplication, so no comparison is rounded.                       *)
(***************************************************************************)
EXTENDS Integers, Sequences, FiniteSets, TLC

VARIABLES
  config,        \* AlertManager.config, the result of _load_config
  dedupe_cache,  \* AlertManager.dedupe_cache: key -> [time, score]
  now,           \* datetime.utcnow(), in minutes
  ncalls,        \* number of fuse_signals calls made so far
  call,          \* the last fuse_signals call: arguments, locals, return value
  scored,        \* the last MLService.predict call: arguments and result
  tasks,         \* the process_event_async coroutines in flight
  store,         \* the rows of the alerts table create_alert has inserted
  emitted        \* history: per key, the last AlertDraft fuse_signals returned to a stream

vars == <<config, dedupe_cache, now, ncalls, call, scored, tasks, store, emitted>>

(***************************************************************************)
(* Python values                                                            *)
(***************************************************************************)
\* Python's None as a location_id (Optional[str] = None).
NoLocation == "<None>"

\* Python's None as a return value.
None == [py_none |-> TRUE]

IsNone(v) == DOMAIN v = {"py_none"}

\* Truthiness of an Optional[str]: None and "" are falsy.
Truthy(s) == s # NoLocation /\ s # ""

\* An insertion-ordered dict is a sequence of <<key, value>> pairs with
\* distinct keys.
Keys(d) == {d[i][1] : i \in 1..Len(d)}

Values(d) == [i \in 1..Len(d) |-> d[i][2]]

\* dict.get(k, default)
Get(d, k, default) ==
  IF k \in Keys(d)
    THEN (CHOOSE p \in {d[i] : i \in 1..Len(d)} : p[1] = k)[2]
    ELSE default

RECURSIVE SumSeq(_)
SumSeq(s) == IF s = <<>> THEN 0 ELSE Head(s) + SumSeq(Tail(s))

RECURSIVE SumOver(_, _)
\* sum(f[x] for x in S)
SumOver(f, S) ==
  IF S = {} THEN 0
  ELSE LET x == CHOOSE y \in S : TRUE IN f[x] + SumOver(f, S \ {x})

Abs(x) == IF x < 0 THEN -x ELSE x

Min(a, b) == IF a < b THEN a ELSE b

(***************************************************************************)
(* MLService: the rule-based scorers                                        *)
(*                                                                          *)
(* A feature map is a function from the keys present to their values.      *)
(* A value carries its Python type: a number is [num |-> n] with n in       *)
(* tenths (rain_1h = 25.0 is 250), a bool is [bool |-> b], a str is         *)
(* [str |-> its code points], and None is None.  A contribution is in the   *)
(* unit of a score (1e-4).                                                  *)
(***************************************************************************)
Num(n) == [num |-> n]

Bool(b) == [bool |-> b]

Str(codes) == [str |-> codes]

IsStr(v) == "str" \in DOMAIN v

\* int, float and bool order and divide as numbers.
IsNumber(v) == "num" \in DOMAIN v \/ "bool" \in DOMAIN v

\* The number a numeric value stands for (True is 1, False is 0), in tenths.
N(v) == IF "bool" \in DOMAIN v THEN (IF v.bool THEN 10 ELSE 0) ELSE v.num

\* bool(v)
Truth(v) ==
  IF "bool" \in DOMAIN v THEN v.bool
  ELSE IF "num" \in DOMAIN v THEN v.num # 0
  ELSE IF IsStr(v) THEN v.str # <<>>
  ELSE FALSE

\* a > b for two str values: lexicographic by code point.
RECURSIVE StrGreater(_, _)
StrGreater(a, b) ==
  IF a = <<>> THEN FALSE
  ELSE IF b = <<>> THEN TRUE
  ELSE IF Head(a) # Head(b) THEN Head(a) > Head(b)
  ELSE StrGreater(Tail(a), Tail(b))

\* An operand of the wrong type: '>' between str and int, None * 3, an
\* ndarray of str or of objects divided by floats.
TypeError == [raised |-> "TypeError"]

\* features.get(key, default)
FGet(features, key, default) ==
  IF key \in DOMAIN features THEN features[key] ELSE default

\* Seeded fault: the score is not capped.
clamp_score_missing(score) == score

\* score = min(score, 1.0)
clamp_score(score) == Min(score, 10000)

\* Seeded fault: the list is left in rule order.
sort_contributions_unsorted(contributions) == contributions

\* Stable insertion of c into a list sorted by contribution, largest first:
\* c goes behind every entry that is at least as large.
RECURSIVE InsertDesc(_, _)
InsertDesc(sorted, c) ==
  IF sorted = <<>> THEN <<c>>
  ELSE IF Head(sorted).contribution >= c.contribution
         THEN <<Head(sorted)>> \o InsertDesc(Tail(sorted), c)
         ELSE <<c>> \o sorted

\* contributions.sort(key=lambda x: x["contribution"], reverse=True)
RECURSIVE sort_contributions(_)
sort_contributions(contributions) ==
  IF contributions = <<>> THEN <<>>
  ELSE InsertDesc(sort_contributions(SubSeq(contributions, 1, Len(contributions) - 1)),
                  contributions[Len(contributions)])

\* contributions[:5]
top_features_of(contributions) ==
  SubSeq(contributions, 1, Min(5, Len(contributions)))

\* The dict a scorer returns.
score_result(score, confidence, contributions, model_type, current_time) ==
  [score |-> score,
   confidence |-> confidence,
   top_features |-> top_features_of(sort_contributions(contributions)),
   meta |-> [model_type |-> model_type, timestamp |-> current_time]]

Contribution(name, contribution) == [name |-> name, contribution |-> contribution]

\* One rule of a ladder: the entry it appends when cond holds.
Rule(cond, name, contribution) ==
  IF cond THEN <<Contribution(name, contribution)>> ELSE <<>>

\* The score a ladder has added up: the sum of the entries appended.
RECURSIVE LadderScore(_)
LadderScore(contributions) ==
  IF contributions = <<>> THEN 0
  ELSE Head(contributions).contribution + LadderScore(Tail(contributions))

\* Seeded fault: rain_1h = 25 already counts as above 25.
predict_weather_inclusive(features, current_time) ==
  LET rain_1h == FGet(features, "rain_1h", Num(0))
      rain_3h == FGet(features, "rain_3h", Num(0))
      rain_6h == FGet(features, "rain_6h", Num(0))
      forecast_rain_3h == FGet(features, "forecast_rain_3h", Num(0))
      temp_max_24h == FGet(features, "temp_max_24h", Num(200))
      zscore_recent == FGet(features, "zscore_recent", Num(0))
      contributions ==
        (IF N(rain_1h) >= 250 THEN <<Contribution("rain_1h", 4000)>>
         ELSE IF N(rain_1h) > 150 THEN <<Contribution("rain_1h", 2500)>>
         ELSE <<>>)
        \o (IF N(rain_3h) > 500 THEN <<Contribution("rain_3h", 3000)>>
            ELSE IF N(rain_3h) > 300 THEN <<Contribution("rain_3h", 1500)>>
            ELSE <<>>)
        \o Rule(N(forecast_rain_3h) > 400, "forecast_rain_3h", 2000)
        \o Rule(N(zscore_recent) > 25, "zscore_recent", 1500)
      score == clamp_score(LadderScore(contributions))
      confidence == IF N(rain_1h) > 0 THEN 70 ELSE 50
  IN  IF \E v \in {rain_1h, rain_3h, forecast_rain_3h, zscore_recent} : ~IsNumber(v)
        THEN TypeError
        ELSE score_result(score, confidence, contributions, "rule_based", current_time)

\* MLService._predict_weather.  Each of the four features compared is
\* compared whatever the others are, so one that is no number raises.
predict_weather(features, current_time) ==
  LET rain_1h == FGet(features, "rain_1h", Num(0))
      rain_3h == FGet(features, "rain_3h", Num(0))
      rain_6h == FGet(features, "rain_6h", Num(0))
      forecast_rain_3h == FGet(features, "forecast_rain_3h", Num(0))
      temp_max_24h == FGet(features, "temp_max_24h", Num(200))
      zscore_recent == FGet(features, "zscore_recent", Num(0))
      contributions ==
        (IF N(rain_1h) > 250 THEN <<Contribution("rain_1h", 4000)>>
         ELSE IF N(rain_1h) > 150 THEN <<Contribution("rain_1h", 2500)>>
         ELSE <<>>)
        \o (IF N(rain_3h) > 500 THEN <<Contribution("rain_3h", 3000)>>
            ELSE IF N(rain_3h) > 300 THEN <<Contribution("rain_3h", 1500)>>
            ELSE <<>>)
        \o Rule(N(forecast_rain_3h) > 400, "forecast_rain_3h", 2000)
        \o Rule(N(zscore_recent) > 25, "zscore_recent", 1500)
      score == clamp_score(LadderScore(contributions))
      confidence == IF N(rain_1h) > 0 THEN 70 ELSE 50
  IN  IF \E v \in {rain_1h, rain_3h, forecast_rain_3h, zscore_recent} : ~IsNumber(v)
        THEN TypeError
        ELSE score_result(score, confidence, contributions, "rule_based", current_time)

\* Seeded fault: the normalized value is not clipped.
normalized_unclipped(value, scale) ==
  IF value >= 0 THEN (20 * value + scale) \div (2 * scale)
  ELSE -((20 * (-value) + scale) \div (2 * scale))

\* np.clip(feature / (scale + 1e-6), 0, 1), in hundredths, rounded to the
\* nearest (the 1e-6 is below the resolution); value in tenths.
Normalized(value, scale) ==
  IF value <= 0 THEN 0
  ELSE IF value >= scale * 10 THEN 100
  ELSE (20 * value + scale) \div (2 * scale)

CrimeFeatures ==
  <<"incidents_last_1h", "incidents_last_3h", "incidents_last_24h", "hour_of_day",
    "weekday", "kde_density", "neighbor_incidents">>

CrimeDefaults == <<0, 0, 0, 120, 30, 0, 0>>

CrimeScales == <<10, 30, 100, 24, 7, 1, 20>>

CrimeWeights == <<35, 25, 15, 5, 5, 10, 5>>

\* MLService._predict_crime.  np.array of the seven values is an array of
\* str when one is a str and of objects when one is None, and its division
\* by the scales raises.
predict_crime(features, current_time) ==
  LET feature_vector ==
        [i \in 1..7 |-> FGet(features, CrimeFeatures[i], Num(CrimeDefaults[i]))]
      normalized_features ==
        [i \in 1..7 |-> Normalized(N(feature_vector[i]), CrimeScales[i])]
      products == [i \in 1..7 |-> normalized_features[i] * CrimeWeights[i]]
      score == clamp_score(SumSeq(products))
      confidence == IF N(feature_vector[1]) > 0 THEN 80 ELSE 60
      contributions ==
        <<Contribution("incidents_last_1h", products[1]),
          Contribution("incidents_last_3h", products[2]),
          Contribution("kde_density", products[6]),
          Contribution("incidents_last_24h", products[3]),
          Contribution("neighbor_incidents", products[7])>>
  IN  IF \E i \in 1..7 : ~IsNumber(feature_vector[i])
        THEN TypeError
        ELSE score_result(score, confidence, contributions, "weighted_ensemble",
                          current_time)

\* txn_amount > avg_txn_amount_7d * 3 raises unless both are numbers or both
\* are str (None * 3 raises, str * 3 repeats the str).
AmountComparable(txn_amount, avg_txn_amount_7d) ==
  \/ IsNumber(txn_amount) /\ IsNumber(avg_txn_amount_7d)
  \/ IsStr(txn_amount) /\ IsStr(avg_txn_amount_7d)

\* txn_amount > avg_txn_amount_7d * 3
AmountAnomaly(txn_amount, avg_txn_amount_7d) ==
  IF IsStr(txn_amount)
    THEN StrGreater(txn_amount.str,
                    avg_txn_amount_7d.str \o avg_txn_amount_7d.str \o avg_txn_amount_7d.str)
    ELSE N(txn_amount) > N(avg_txn_amount_7d) * 3

\* Seeded fault: one triggered rule is enough for confidence 0.75.
predict_fraud_one_rule_confident(features, current_time) ==
  LET txn_amount == FGet(features, "txn_amount", Num(0))
      account_age_days == FGet(features, "account_age_days", Num(3650))
      txn_count_1h == FGet(features, "txn_count_1h", Num(0))
      unique_devices_24h == FGet(features, "unique_devices_24h", Num(10))
      avg_txn_amount_7d == FGet(features, "avg_txn_amount_7d", Num(1000))
      is_new_device_flag == FGet(features, "is_new_device_flag", Bool(FALSE))
      contributions ==
        Rule(AmountAnomaly(txn_amount, avg_txn_amount_7d), "txn_amount_anomaly", 3000)
        \o Rule(N(account_age_days) < 300, "new_account", 2500)
        \o Rule(N(txn_count_1h) > 50, "high_frequency", 2000)
        \o Rule(N(unique_devices_24h) > 30, "multiple_devices", 1500)
        \o Rule(Truth(is_new_device_flag), "new_device", 1000)
      score == clamp_score(LadderScore(contributions))
      confidence == IF Len(contributions) >= 1 THEN 75 ELSE 55
  IN  IF \/ ~AmountComparable(txn_amount, avg_txn_amount_7d)
         \/ \E v \in {account_age_days, txn_count_1h, unique_devices_24h} : ~IsNumber(v)
        THEN TypeError
        ELSE score_result(score, confidence, contributions, "isolation_forest_rules",
                          current_time)

\* MLService._predict_fraud
predict_fraud(features, current_time) ==
  LET txn_amount == FGet(features, "txn_amount", Num(0))
      account_age_days == FGet(features, "account_age_days", Num(3650))
      txn_count_1h == FGet(features, "txn_count_1h", Num(0))
      unique_devices_24h == FGet(features, "unique_devices_24h", Num(10))
      avg_txn_amount_7d == FGet(features, "avg_txn_amount_7d", Num(1000))
      is_new_device_flag == FGet(features, "is_new_device_flag", Bool(FALSE))
      contributions ==
        Rule(AmountAnomaly(txn_amount, avg_txn_amount_7d), "txn_amount_anomaly", 3000)
        \o Rule(N(account_age_days) < 300, "new_account", 2500)
        \o Rule(N(txn_count_1h) > 50, "high_frequency", 2000)
        \o Rule(N(unique_devices_24h) > 30, "multiple_devices", 1500)
        \o Rule(Truth(is_new_device_flag), "new_device", 1000)
      score == clamp_score(LadderScore(contributions))
      confidence == IF Len(contributions) >= 2 THEN 75 ELSE 55
  IN  IF \/ ~AmountComparable(txn_amount, avg_txn_amount_7d)
         \/ \E v \in {account_age_days, txn_count_1h, unique_devices_24h} : ~IsNumber(v)
        THEN TypeError
        ELSE score_result(score, confidence, contributions, "isolation_forest_rules",
                          current_time)

\* raise ValueError(f"Unknown model: {model_name}")
ValueError == [raised |-> "ValueError"]

Raised(result) == "raised" \in DOMAIN result

\* Seeded fault: an unknown model gets a default score.
predict_unknown_defaults(model_name, features, current_time) ==
  IF model_name = "weather" THEN predict_weather(features, current_time)
  ELSE IF model_name = "crime" THEN predict_crime(features, current_time)
  ELSE IF model_name = "fraud" THEN predict_fraud(features, current_time)
  ELSE score_result(0, 0, <<>>, "unknown", current_time)

\* MLService.predict
predict(model_name, features, current_time) ==
  IF model_name = "weather" THEN predict_weather(features, current_time)
  ELSE IF model_name = "crime" THEN predict_crime(features, current_time)
  ELSE IF model_name = "fraud" THEN predict_fraud(features, current_time)
  ELSE ValueError

(***************************************************************************)
(* AlertManager._load_config                                                *)
(***************************************************************************)
\* Seeded fault: weather weighs 0.5.
default_config_heavy_weather ==
  [domain_weights |-> [weather |-> 50, crime |-> 35, fraud |-> 25],
   severity_thresholds |-> [critical |-> 85, warning |-> 65, watch |-> 45, info |-> 0],
   required_corroboration |-> 2,
   auto_escalation_enabled |-> TRUE,
   auto_escalation_confidence |-> 85,
   dedupe_radius_meters |-> 1000,
   dedupe_window_minutes |-> 30,
   rate_limit_per_org |-> 100]

\* Seeded fault: the critical threshold is 0.75.
default_config_low_critical ==
  [domain_weights |-> [weather |-> 40, crime |-> 35, fraud |-> 25],
   severity_thresholds |-> [critical |-> 75, warning |-> 65, watch |-> 45, info |-> 0],
   required_corroboration |-> 2,
   auto_escalation_enabled |-> TRUE,
   auto_escalation_confidence |-> 85,
   dedupe_radius_meters |-> 1000,
   dedupe_window_minutes |-> 30,
   rate_limit_per_org |-> 100]

default_config ==
  [domain_weights |-> [weather |-> 40, crime |-> 35, fraud |-> 25],
   severity_thresholds |-> [critical |-> 85, warning |-> 65, watch |-> 45, info |-> 0],
   required_corroboration |-> 2,
   auto_escalation_enabled |-> TRUE,
   auto_escalation_confidence |-> 85,
   dedupe_radius_meters |-> 1000,
   dedupe_window_minutes |-> 30,
   rate_limit_per_org |-> 100]

\* d[k] = v
Put(d, k, v) == [x \in DOMAIN d \cup {k} |-> IF x = k THEN v ELSE d[x]]

\* dict.update(items) for a list: the elements are stored one by one as
\* key/value pairs, and the first that is no pair raises ValueError, which
\* leaves the pairs before it stored.
RECURSIVE UpdateFromItems(_, _)
UpdateFromItems(d, items) ==
  IF items = <<>> THEN d
  ELSE IF Len(Head(items)) # 2 THEN d
  ELSE UpdateFromItems(Put(d, Head(items)[1], Head(items)[2]), Tail(items))

\* A configuration document is what config_path holds: no file ("missing"),
\* a text yaml.safe_load rejects ("unparsable"), or a text it loads as a
\* mapping, as None (the empty document, "null"), as a number or str
\* ("scalar"), or as a list ("sequence").
\* dict.update is shallow: a supplied key replaces the default's whole value.
\* update(None) and update of a number raise TypeError, update of a str
\* raises ValueError at its first character; the except clause returns
\* default_config as it is by then.
load_config(doc) ==
  CASE doc.kind = "missing" -> default_config
    [] doc.kind = "unparsable" -> default_config
    [] doc.kind = "null" -> default_config
    [] doc.kind = "scalar" -> default_config
    [] doc.kind = "sequence" -> UpdateFromItems(default_config, doc.items)
    [] doc.kind = "mapping" ->
         [k \in DOMAIN default_config \cup DOMAIN doc.map |->
            IF k \in DOMAIN doc.map THEN doc.map[k] ELSE default_config[k]]

(***************************************************************************)
(* AlertManager.fuse_signals and its helpers                                *)
(***************************************************************************)
\* Seeded fault: the sum runs over the scored domains, and a domain without a
\* configured weight weighs 1.0.
weighted_score_of_scored_domains(cfg, component_scores) ==
  LET weights == cfg.domain_weights
      ks == Keys(component_scores)
  IN  SumOver([d \in ks |-> Get(component_scores, d, 0)
                              * (IF d \in DOMAIN weights THEN weights[d] ELSE 100)],
              ks)

\* sum(component_scores.get(domain, 0) * weights.get(domain, 0)
\*     for domain in weights.keys())
weighted_score_of(cfg, component_scores) ==
  LET weights == cfg.domain_weights
  IN  SumOver([d \in DOMAIN weights |-> Get(component_scores, d, 0) * weights[d]],
              DOMAIN weights)

\* sum(confidences.values()) / len(confidences) if confidences else 0.0
avg_confidence_of(confidences) ==
  IF Len(confidences) > 0
    THEN [num |-> SumSeq(Values(confidences)), den |-> Len(confidences)]
    ELSE [num |-> 0, den |-> 1]

\* adjusted_score >= threshold, adjusted_score = score * confidence
\* (score in 1e-6, confidence num/den in 1e-2, threshold in 1e-2).
AdjustedAtLeast(score, confidence, threshold) ==
  score * confidence.num >= threshold * 1000000 * confidence.den

\* Seeded fault: a threshold must be exceeded, not met.
calculate_severity_strict(cfg, score, confidence, component_scores) ==
  LET thresholds == cfg.severity_thresholds
      Above(t) == score * confidence.num > t * 1000000 * confidence.den
  IN  IF Above(thresholds["critical"]) THEN "critical"
      ELSE IF Above(thresholds["warning"]) THEN "warning"
      ELSE IF Above(thresholds["watch"]) THEN "watch"
      ELSE "info"

\* raise KeyError(key)
KeyError == [raised |-> "KeyError"]

\* thresholds["critical"], ["warning"], ["watch"] are read in this order
\* until one is met; reading a tier the configuration lacks raises KeyError.
calculate_severity_raises(cfg, score, confidence) ==
  LET thresholds == cfg.severity_thresholds
      Reads(t, otherwise) ==
        \/ t \notin DOMAIN thresholds
        \/ ~AdjustedAtLeast(score, confidence, thresholds[t]) /\ otherwise
  IN  Reads("critical", Reads("warning", Reads("watch", FALSE)))

\* AlertManager._calculate_severity, when it raises nothing
calculate_severity(cfg, score, confidence, component_scores) ==
  LET thresholds == cfg.severity_thresholds
  IN  IF AdjustedAtLeast(score, confidence, thresholds["critical"]) THEN "critical"
      ELSE IF AdjustedAtLeast(score, confidence, thresholds["warning"]) THEN "warning"
      ELSE IF AdjustedAtLeast(score, confidence, thresholds["watch"]) THEN "watch"
      ELSE "info"

\* sum(1 for score in component_scores.values() if score > 0.3)
active_signals_of(component_scores) ==
  Cardinality({i \in 1..Len(component_scores) : component_scores[i][2] > 3000})

\* Seeded fault: of several maximal scores the last one wins.
determine_primary_type_last(component_scores) ==
  IF Len(component_scores) = 0
    THEN "unknown"
    ELSE LET n == Len(component_scores)
             best == CHOOSE i \in 1..n :
                       /\ \A j \in 1..n : component_scores[j][2] <= component_scores[i][2]
                       /\ \A j \in (i + 1)..n : component_scores[j][2] < component_scores[i][2]
         IN  component_scores[best][1]

\* Seeded fault: the gate ignores the severity.
requires_human_approval_any_severity(cfg, severity, confidence, active_signals) ==
  IF ~cfg.auto_escalation_enabled THEN TRUE
  ELSE IF active_signals < cfg.required_corroboration THEN TRUE
  ELSE IF confidence.num < cfg.auto_escalation_confidence * confidence.den THEN TRUE
  ELSE FALSE

requires_human_approval(cfg, severity, confidence, active_signals) ==
  IF severity = "critical"
    THEN IF ~cfg.auto_escalation_enabled THEN TRUE
         ELSE IF active_signals < cfg.required_corroboration THEN TRUE
         ELSE IF confidence.num < cfg.auto_escalation_confidence * confidence.den THEN TRUE
         ELSE FALSE
    ELSE FALSE

\* max(component_scores.items(), key=lambda x: x[1]): the first item, in
\* insertion order, whose score is maximal.
determine_primary_type(component_scores) ==
  IF Len(component_scores) = 0
    THEN "unknown"
    ELSE LET n == Len(component_scores)
             best == CHOOSE i \in 1..n :
                       /\ \A j \in 1..n : component_scores[j][2] <= component_scores[i][2]
                       /\ \A j \in 1..(i - 1) : component_scores[j][2] < component_scores[i][2]
         IN  component_scores[best][1]

recommendations ==
  [weather |-> [critical |-> "Immediate evacuation recommended. Flash flood conditions imminent.",
                warning  |-> "Monitor conditions closely. Prepare for possible evacuation.",
                watch    |-> "Stay alert. Heavy rainfall expected.",
                info     |-> "Weather conditions deteriorating. Stay informed."],
   crime   |-> [critical |-> "High crime activity detected. Increase patrols immediately.",
                warning  |-> "Elevated crime risk. Deploy additional resources.",
                watch    |-> "Crime pattern emerging. Monitor the area.",
                info     |-> "Routine crime activity detected."],
   fraud   |-> [critical |-> "Sophisticated fraud attack detected. Freeze accounts and investigate.",
                warning  |-> "Fraud pattern detected. Review transactions immediately.",
                watch    |-> "Potential fraud indicators present. Monitor closely.",
                info     |-> "Minor fraud risk detected."]]

\* recommendations.get(primary_type, {}).get(severity, "Monitor situation.")
generate_recommendation(primary_type, severity, component_scores) ==
  IF primary_type \in DOMAIN recommendations
       /\ severity \in DOMAIN recommendations[primary_type]
    THEN recommendations[primary_type][severity]
    ELSE "Monitor situation."

\* cache_key = f"{location_id}:{primary_type}"
CacheKey(location_id, primary_type) == <<location_id, primary_type>>

\* 0.15, the score difference below which an event repeats the cached one
\* (in units of 1e-6).
DuplicateScoreDelta == 150000

EmptyCache == [k \in {} |-> [time |-> 0, score |-> 0]]

\* Seeded fault: writing an entry drops the entries of the other keys.
cache_put_drops_others(cache, key, entry) == [k \in {key} |-> entry]

\* self.dedupe_cache[cache_key] = (current_time, score)
CachePut(cache, key, entry) ==
  [k \in DOMAIN cache \cup {key} |-> IF k = key THEN entry ELSE cache[k]]

\* The cached entry for the key, as _check_duplicate reads it:
\* last_alert_time, last_score = self.dedupe_cache[cache_key]
CacheLookup(cache, cache_key) ==
  IF cache_key \in DOMAIN cache
    THEN [had_entry |-> TRUE, last_alert_time |-> cache[cache_key].time,
          last_score |-> cache[cache_key].score]
    ELSE [had_entry |-> FALSE, last_alert_time |-> 0, last_score |-> 0]

\* Seeded fault: the cache is never written.
check_duplicate_no_write(cfg, cache, current_time, location_id, primary_type, score) ==
  IF ~Truthy(location_id)
    THEN [dup |-> FALSE, cache |-> cache, had_entry |-> FALSE,
          last_alert_time |-> 0, last_score |-> 0]
    ELSE LET cache_key == CacheKey(location_id, primary_type)
             e == CacheLookup(cache, cache_key)
             dup == /\ e.had_entry
                    /\ current_time - e.last_alert_time < cfg.dedupe_window_minutes
                    /\ Abs(score - e.last_score) < DuplicateScoreDelta
         IN  [dup |-> dup, cache |-> cache, had_entry |-> e.had_entry,
              last_alert_time |-> e.last_alert_time, last_score |-> e.last_score]

\* Seeded fault: a duplicate refreshes the cached entry.
check_duplicate_refresh(cfg, cache, current_time, location_id, primary_type, score) ==
  IF ~Truthy(location_id)
    THEN [dup |-> FALSE, cache |-> cache, had_entry |-> FALSE,
          last_alert_time |-> 0, last_score |-> 0]
    ELSE LET cache_key == CacheKey(location_id, primary_type)
             e == CacheLookup(cache, cache_key)
             dup == /\ e.had_entry
                    /\ current_time - e.last_alert_time < cfg.dedupe_window_minutes
                    /\ Abs(score - e.last_score) < DuplicateScoreDelta
         IN  [dup |-> dup,
              cache |-> CachePut(cache, cache_key, [time |-> current_time, score |-> score]),
              had_entry |-> e.had_entry,
              last_alert_time |-> e.last_alert_time, last_score |-> e.last_score]

\* Seeded fault: a score exactly 0.15 away still counts as a duplicate.
check_duplicate_inclusive(cfg, cache, current_time, location_id, primary_type, score) ==
  IF ~Truthy(location_id)
    THEN [dup |-> FALSE, cache |-> cache, had_entry |-> FALSE,
          last_alert_time |-> 0, last_score |-> 0]
    ELSE LET cache_key == CacheKey(location_id, primary_type)
             e == CacheLookup(cache, cache_key)
             dup == /\ e.had_entry
                    /\ current_time - e.last_alert_time < cfg.dedupe_window_minutes
                    /\ Abs(score - e.last_score) <= DuplicateScoreDelta
         IN  [dup |-> dup,
              cache |-> IF dup THEN cache
                        ELSE CachePut(cache, cache_key,
                                      [time |-> current_time, score |-> score]),
              had_entry |-> e.had_entry,
              last_alert_time |-> e.last_alert_time, last_score |-> e.last_score]

\* Seeded fault: an event without location_id is keyed like any other.
check_duplicate_keys_no_location(cfg, cache, current_time, location_id, primary_type, score) ==
  LET cache_key == CacheKey(location_id, primary_type)
      e == CacheLookup(cache, cache_key)
      dup == /\ e.had_entry
             /\ current_time - e.last_alert_time < cfg.dedupe_window_minutes
             /\ Abs(score - e.last_score) < DuplicateScoreDelta
  IN  [dup |-> dup,
       cache |-> IF dup THEN cache
                 ELSE CachePut(cache, cache_key, [time |-> current_time, score |-> score]),
       had_entry |-> e.had_entry,
       last_alert_time |-> e.last_alert_time, last_score |-> e.last_score]

\* Whether the event is a duplicate, the cache afterwards, and the entry read.
check_duplicate(cfg, cache, current_time, location_id, primary_type, score) ==
  IF ~Truthy(location_id)
    THEN [dup |-> FALSE, cache |-> cache, had_entry |-> FALSE,
          last_alert_time |-> 0, last_score |-> 0]
    ELSE LET cache_key == CacheKey(location_id, primary_type)
             e == CacheLookup(cache, cache_key)
             dup == /\ e.had_entry
                    /\ current_time - e.last_alert_time < cfg.dedupe_window_minutes
                    /\ Abs(score - e.last_score) < DuplicateScoreDelta
         IN  [dup |-> dup,
              cache |-> IF dup THEN cache
                        ELSE CachePut(cache, cache_key,
                                      [time |-> current_time, score |-> score]),
              had_entry |-> e.had_entry,
              last_alert_time |-> e.last_alert_time, last_score |-> e.last_score]

\* The dict fuse_signals returns when the event is no duplicate.
alert_data_of(primary_type, component_scores, weighted_score, severity, location_id, evidence, recommended_action, requires_approval, current_time) ==
  [primary_type |-> primary_type,
   component_scores |-> component_scores,
   final_score |-> weighted_score,
   severity |-> severity,
   location_id |-> location_id,
   evidence |-> evidence,
   recommended_action |-> recommended_action,
   status |-> IF ~requires_approval THEN "open" ELSE "open",
   created_at |-> current_time,
   updated_at |-> current_time]

\* Seeded fault: a critical event is never suppressed as a duplicate.
fuse_signals_escalation_passes(cfg, cache, current_time, component_scores, confidences, evidence, location_id) ==
  LET weighted_score == weighted_score_of(cfg, component_scores)
      avg_confidence == avg_confidence_of(confidences)
      severity == calculate_severity(cfg, weighted_score, avg_confidence, component_scores)
      active_signals == active_signals_of(component_scores)
      requires_approval ==
        requires_human_approval(cfg, severity, avg_confidence, active_signals)
      primary_type == determine_primary_type(component_scores)
      recommended_action == generate_recommendation(primary_type, severity, component_scores)
      chk == check_duplicate(cfg, cache, current_time, location_id, primary_type,
                             weighted_score)
  IN  IF calculate_severity_raises(cfg, weighted_score, avg_confidence)
        THEN [ret |-> KeyError, cache |-> cache, had_entry |-> FALSE,
              last_alert_time |-> 0, last_score |-> 0,
              weighted_score |-> weighted_score, avg_confidence |-> avg_confidence,
              severity |-> "info", active_signals |-> 0, requires_approval |-> FALSE,
              primary_type |-> "unknown"]
        ELSE
      [ret |-> IF chk.dup /\ severity # "critical"
                 THEN None
                 ELSE alert_data_of(primary_type, component_scores, weighted_score,
                                    severity, location_id, evidence, recommended_action,
                                    requires_approval, current_time),
       cache |-> chk.cache,
       had_entry |-> chk.had_entry,
       last_alert_time |-> chk.last_alert_time,
       last_score |-> chk.last_score,
       weighted_score |-> weighted_score,
       avg_confidence |-> avg_confidence,
       severity |-> severity,
       active_signals |-> active_signals,
       requires_approval |-> requires_approval,
       primary_type |-> primary_type]

\* One call of fuse_signals on an AlertManager whose config is cfg and whose
\* dedupe_cache is cache, at time current_time: the value returned, the cache
\* afterwards, and the call's local variables (those not assigned when
\* _calculate_severity raises are given as in NoCall).
fuse_signals(cfg, cache, current_time, component_scores, confidences, evidence, location_id) ==
  LET weighted_score == weighted_score_of(cfg, component_scores)
      avg_confidence == avg_confidence_of(confidences)
      severity == calculate_severity(cfg, weighted_score, avg_confidence, component_scores)
      active_signals == active_signals_of(component_scores)
      requires_approval ==
        requires_human_approval(cfg, severity, avg_confidence, active_signals)
      primary_type == determine_primary_type(component_scores)
      recommended_action == generate_recommendation(primary_type, severity, component_scores)
      chk == check_duplicate(cfg, cache, current_time, location_id, primary_type,
                             weighted_score)
  IN  IF calculate_severity_raises(cfg, weighted_score, avg_confidence)
        THEN [ret |-> KeyError, cache |-> cache, had_entry |-> FALSE,
              last_alert_time |-> 0, last_score |-> 0,
              weighted_score |-> weighted_score, avg_confidence |-> avg_confidence,
              severity |-> "info", active_signals |-> 0, requires_approval |-> FALSE,
              primary_type |-> "unknown"]
        ELSE
      [ret |-> IF chk.dup
                 THEN None
                 ELSE alert_data_of(primary_type, component_scores, weighted_score,
                                    severity, location_id, evidence, recommended_action,
                                    requires_approval, current_time),
       cache |-> chk.cache,
       had_entry |-> chk.had_entry,
       last_alert_time |-> chk.last_alert_time,
       last_score |-> chk.last_score,
       weighted_score |-> weighted_score,
       avg_confidence |-> avg_confidence,
       severity |-> severity,
       active_signals |-> active_signals,
       requires_approval |-> requires_approval,
       primary_type |-> primary_type]

(***************************************************************************)
(* Bounds and input sets                                                    *)
(***************************************************************************)
\* fuse_signals calls in one behaviour of Spec.
MaxCalls == 2

\* Clock ticks in one behaviour, and the minutes one tick lasts.
MaxTicks == 3

TickMinutes == 15

\* Configuration documents: no file; auto-escalation switched off with a
\* lower critical threshold; stricter corroboration and confidence with lower
\* thresholds and a shorter window; weights that leave fraud unconfigured.
DocMissing == [kind |-> "missing"]

DocNoEscalation ==
  [kind |-> "mapping",
   map |-> [auto_escalation_enabled |-> FALSE,
            severity_thresholds |->
              [critical |-> 60, warning |-> 40, watch |-> 20, info |-> 0]]]

DocStrict ==
  [kind |-> "mapping",
   map |-> [required_corroboration |-> 3,
            auto_escalation_confidence |-> 90,
            dedupe_window_minutes |-> 15,
            severity_thresholds |->
              [critical |-> 50, warning |-> 36, watch |-> 20, info |-> 0]]]

DocTwoWeights ==
  [kind |-> "mapping",
   map |-> [domain_weights |-> [weather |-> 60, crime |-> 40]]]

ConfigDocs == {DocMissing, DocNoEscalation, DocStrict, DocTwoWeights}

\* Documents that supply part of a nested map, part of the top level, or
\* nothing; documents that fail to load; and a list whose first element is a
\* pair and whose second is not.
DocPartialThresholds ==
  [kind |-> "mapping",
   map |-> [severity_thresholds |-> [critical |-> 30, warning |-> 20]]]

DocWindowOnly == [kind |-> "mapping", map |-> [dedupe_window_minutes |-> 15]]

DocEmptyMapping == [kind |-> "mapping", map |-> [k \in {} |-> 0]]

DocUnparsable == [kind |-> "unparsable"]

DocEmpty == [kind |-> "null"]

DocScalar == [kind |-> "scalar"]

DocPairThenText ==
  [kind |-> "sequence", items |-> << <<"required_corroboration", 3>>, <<"oops">> >>]

DocTextOnly == [kind |-> "sequence", items |-> << <<"oops">> >>]

\* The documents that omit fields, and those that are no mapping at all.
PartialDocs ==
  {DocNoEscalation, DocStrict, DocTwoWeights, DocPartialThresholds, DocWindowOnly,
   DocEmptyMapping}

FailingDocs ==
  {DocMissing, DocUnparsable, DocEmpty, DocScalar, DocPairThenText, DocTextOnly}

AllConfigDocs == PartialDocs \cup FailingDocs

\* The documents of the call sequences of Spec: the default window of 30
\* minutes and one of 15.
SeqConfigDocs == {DocMissing, DocStrict}

Locations == {NoLocation, "", "L1", "L2"}

\* The evidence list is passed through untouched.
SomeEvidence == <<"analysis">>

\* Ordered dicts over the keys of ks (a sequence) with values in vals, every
\* key present or absent, in the order of ks.
RECURSIVE Dicts(_, _)
Dicts(ks, vals) ==
  IF ks = <<>> THEN {<<>>}
  ELSE LET rest == Dicts(Tail(ks), vals)
       IN  rest \cup {<<<<Head(ks), v>>>> \o d : v \in vals, d \in rest}

\* Inputs of the call sequences of Spec: few values, chosen around the
\* duplicate rule (0.4*1.0 and 0.4*0.9 are 0.04 apart; 0.4*1.0 + 0.25*0.6 is
\* exactly 0.15 above 0.4*1.0).
SeqComponentScores ==
  { <<>>,
    <<<<"weather", 10000>>>>,
    <<<<"weather", 9000>>>>,
    <<<<"weather", 10000>>, <<"fraud", 6000>>>>,
    <<<<"crime", 10000>>>>,
    <<<<"weather", 10000>>, <<"crime", 10000>>, <<"fraud", 10000>>>> }

SeqConfidences == { <<<<"weather", 100>>>>, <<<<"weather", 60>>, <<"crime", 50>>>> }

\* Inputs of the single calls of SpecDecision: every combination of the
\* three domains over scores around the 0.3 activity cut and the severity
\* thresholds, the same with the insertion order reversed, and dicts holding
\* a domain no configuration weighs.
DecisionScores == {0, 3000, 5000, 9000, 10000}

DecisionComponentScores ==
  Dicts(<<"weather", "crime", "fraud">>, DecisionScores)
    \cup Dicts(<<"fraud", "crime", "weather">>, {10000})
    \cup { <<<<"traffic", 10000>>>>,
           <<<<"weather", 10000>>, <<"traffic", 10000>>>> }

DecisionConfidences == Dicts(<<"weather", "crime">>, {60, 85, 90, 100})

DecisionLocations == {NoLocation, "L1"}

(***************************************************************************)
(* The AlertManager as a state machine                                      *)
(***************************************************************************)
NoCall ==
  [component_scores |-> <<>>, confidences |-> <<>>, evidence |-> <<>>,
   location_id |-> NoLocation, time |-> 0, ret |-> None,
   had_entry |-> FALSE, last_alert_time |-> 0, last_score |-> 0,
   weighted_score |-> 0, avg_confidence |-> [num |-> 0, den |-> 1],
   severity |-> "info", active_signals |-> 0, requires_approval |-> FALSE,
   primary_type |-> "unknown"]

\* No AlertDraft returned yet.
NoneEmitted == [k \in {} |-> [time |-> 0, score |-> 0, severity |-> "info"]]

\* No predict call made yet.
NoScore == [model_name |-> "", features |-> <<>>, result |-> None]

\* AlertManager.__init__ with one of the configuration documents docs
InitManager(docs) ==
  /\ config \in {load_config(doc) : doc \in docs}
  /\ dedupe_cache = EmptyCache
  /\ now = 0
  /\ ncalls = 0
  /\ call = NoCall

\* No scorer call and no event in flight.
InitIdle ==
  /\ scored = NoScore
  /\ tasks = <<>>
  /\ store = <<>>
  /\ emitted = NoneEmitted

\* The call itself: fuse_signals runs on the manager's cache at the current
\* time, and what it computed and returned is recorded.
FuseCall(component_scores, confidences, evidence, location_id) ==
  \E r \in {fuse_signals(config, dedupe_cache, now, component_scores, confidences,
                         evidence, location_id)} :
     /\ dedupe_cache' = r.cache
     /\ call' = [component_scores |-> component_scores,
                 confidences |-> confidences,
                 evidence |-> evidence,
                 location_id |-> location_id,
                 time |-> now,
                 ret |-> r.ret,
                 had_entry |-> r.had_entry,
                 last_alert_time |-> r.last_alert_time,
                 last_score |-> r.last_score,
                 weighted_score |-> r.weighted_score,
                 avg_confidence |-> r.avg_confidence,
                 severity |-> r.severity,
                 active_signals |-> r.active_signals,
                 requires_approval |-> r.requires_approval,
                 primary_type |-> r.primary_type]

\* alert_manager.fuse_signals(component_scores, confidences, evidence, location_id)
FuseSignals(component_scores, confidences, evidence, location_id) ==
  /\ ncalls < MaxCalls
  /\ FuseCall(component_scores, confidences, evidence, location_id)
  /\ ncalls' = ncalls + 1
  /\ UNCHANGED <<config, now, scored, tasks, store, emitted>>

\* Time passes between calls.
Tick ==
  /\ now + TickMinutes <= MaxTicks * TickMinutes
  /\ now' = now + TickMinutes
  /\ UNCHANGED <<config, dedupe_cache, ncalls, call, scored, tasks, store, emitted>>

\* Spec: sequences of fuse_signals calls on one AlertManager, time passing
\* between them.
Init == InitManager(SeqConfigDocs) /\ InitIdle

Fuse ==
  \E cs \in SeqComponentScores, cf \in SeqConfidences, loc \in Locations :
    FuseSignals(cs, cf, SomeEvidence, loc)

Next == Fuse \/ Tick

Spec == Init /\ [][Next]_vars

(***************************************************************************)
(* SpecStream: a stream of events fused one after the other on one          *)
(* AlertManager, time passing between them; for every key the last          *)
(* AlertDraft returned is remembered.                                       *)
(***************************************************************************)
\* fuse_signals calls in one behaviour of SpecStream.
MaxStream == 3

\* Low severity thresholds, so that weather scores alone reach every tier.
DocLowThresholds ==
  [kind |-> "mapping",
   map |-> [severity_thresholds |->
              [critical |-> 35, warning |-> 25, watch |-> 15, info |-> 0]]]

\* Weighted scores 0.20, 0.30 and 0.40, all with weather as the primary type.
StreamComponentScores ==
  { <<<<"weather", 5000>>>>,
    <<<<"weather", 7500>>>>,
    <<<<"weather", 10000>>>> }

StreamConfidences == { <<<<"weather", 100>>>>, <<<<"weather", 50>>>> }

StreamLocations == {"L1", NoLocation}

InitStream == InitManager({DocLowThresholds}) /\ InitIdle

\* The history after the call: the AlertDraft returned, if any, becomes the
\* last one of its key.
Remember(history, c) ==
  IF IsNone(c.ret) \/ Raised(c.ret) THEN history
  ELSE LET key == CacheKey(c.location_id, c.primary_type)
       IN  [k \in DOMAIN history \cup {key} |->
              IF k = key
                THEN [time |-> c.time, score |-> c.ret.final_score,
                      severity |-> c.ret.severity]
                ELSE history[k]]

\* The next event of the stream is fused.
StreamEvent ==
  /\ ncalls < MaxStream
  /\ \E cs \in StreamComponentScores, cf \in StreamConfidences, loc \in StreamLocations :
       FuseCall(cs, cf, SomeEvidence, loc)
  /\ ncalls' = ncalls + 1
  /\ emitted' = Remember(emitted, call')
  /\ UNCHANGED <<config, now, scored, tasks, store>>

NextStream == StreamEvent \/ Tick

SpecStream == InitStream /\ [][NextStream]_vars

\* SpecStreamLive: a stream that never ends and repeats its first event
\* (same location_id, same component_scores; the confidences may change).
\* The calls are counted modulo MaxStream.  The stream keeps arriving and
\* the clock keeps running up to its last tick: both are weakly fair.
Arrive ==
  /\ \E cs \in StreamComponentScores, cf \in StreamConfidences, loc \in {"L1", "L2"} :
       /\ ncalls > 0 => cs = call.component_scores /\ loc = call.location_id
       /\ FuseCall(cs, cf, SomeEvidence, loc)
  /\ ncalls' = (ncalls % MaxStream) + 1
  /\ emitted' = Remember(emitted, call')
  /\ UNCHANGED <<config, now, scored, tasks, store>>

NextStreamLive == Arrive \/ Tick

SpecStreamLive ==
  InitStream /\ [][NextStreamLive]_vars /\ WF_vars(Arrive) /\ WF_vars(Tick)

\* SpecDecision: one fuse_signals call on a fresh AlertManager, over the
\* wide input sets.
InitDecision == InitManager(ConfigDocs) /\ InitIdle

FuseOnce ==
  /\ ncalls = 0
  /\ \E cs \in DecisionComponentScores, cf \in DecisionConfidences,
        loc \in DecisionLocations :
       FuseSignals(cs, cf, SomeEvidence, loc)

NextDecision == FuseOnce

SpecDecision == InitDecision /\ [][NextDecision]_vars

\* SpecConfig: AlertManager.__init__ over every document, and one
\* fuse_signals call.
ConfigComponentScores ==
  Dicts(<<"weather", "crime", "fraud">>, {2000, 10000})

ConfigConfidences == {<<>>, <<<<"weather", 100>>>>, <<<<"weather", 60>>, <<"crime", 90>>>>}

InitConfig == InitManager(AllConfigDocs) /\ InitIdle

FuseConfigured ==
  /\ ncalls = 0
  /\ \E cs \in ConfigComponentScores, cf \in ConfigConfidences :
       FuseSignals(cs, cf, SomeEvidence, "L1")

NextConfig == FuseConfigured

SpecConfig == InitConfig /\ [][NextConfig]_vars

(***************************************************************************)
(* SpecScorer: one MLService.predict call over the feature maps             *)
(***************************************************************************)
EmptyMap == [k \in {} |-> 0]

\* The maps holding, for each <<key, values>> of choices, either no such key
\* or the key with one of the values.
RECURSIVE FeatureMaps(_)
FeatureMaps(choices) ==
  IF choices = <<>> THEN {EmptyMap}
  ELSE LET rest == FeatureMaps(Tail(choices))
           k == Head(choices)[1]
       IN  rest \cup {(k :> v) @@ m : v \in Head(choices)[2], m \in rest}

\* A value far above every threshold and scale (a million, in tenths).
Huge == 10000000

Nums(S) == {Num(n) : n \in S}

\* Values on both sides of every threshold, negative and huge ones.
WeatherChoices ==
  << <<"rain_1h", Nums({-10, 10, 150, 151, 250, 251, 300, Huge})>>,
     <<"rain_3h", Nums({0, 300, 301, 500, 501})>>,
     <<"rain_6h", Nums({50})>>,
     <<"forecast_rain_3h", Nums({0, 400, 401})>>,
     <<"temp_max_24h", Nums({-400})>>,
     <<"zscore_recent", Nums({0, 25, 26})>> >>

WeatherInputs == FeatureMaps(WeatherChoices)

CrimeChoices ==
  << <<"incidents_last_1h", Nums({-10, 0, 50, 100, Huge})>>,
     <<"incidents_last_3h", Nums({0, 150, Huge})>>,
     <<"incidents_last_24h", Nums({0, 500})>>,
     <<"hour_of_day", Nums({0, 230})>>,
     <<"weekday", Nums({0, 60})>>,
     <<"kde_density", Nums({0, 5, 20})>>,
     <<"neighbor_incidents", Nums({0, 100})>> >>

CrimeInputs == FeatureMaps(CrimeChoices)

FraudChoices ==
  << <<"txn_amount", Nums({-10, 3000, 3010, 10000, Huge})>>,
     <<"avg_txn_amount_7d", Nums({-1000, 1000})>>,
     <<"account_age_days", Nums({-10, 100, 290, 300})>>,
     <<"txn_count_1h", Nums({0, 50, 60})>>,
     <<"unique_devices_24h", Nums({10, 30, 40})>>,
     <<"is_new_device_flag", {Bool(TRUE), Bool(FALSE)}>> >>

FraudInputs == FeatureMaps(FraudChoices)

\* Values that are no numbers: None, the empty str, "a" and "30".
NonNumbers == {None, Str(<<>>), Str(<<97>>), Str(<<51, 48>>)}

\* The maps of bases with one of the keys set to a value that is no number.
Malformed(keys, bases) ==
  {(k :> v) @@ m : k \in keys, v \in NonNumbers, m \in bases}

WeatherMalformed ==
  Malformed({"rain_1h", "rain_3h", "rain_6h", "forecast_rain_3h", "temp_max_24h",
             "zscore_recent"},
            {EmptyMap, ("rain_1h" :> Num(300)) @@ ("rain_3h" :> Num(600))})

CrimeMalformed ==
  Malformed({CrimeFeatures[i] : i \in 1..7},
            {EmptyMap, ("incidents_last_1h" :> Num(50)) @@ ("kde_density" :> Num(5))})

\* For the fraud scorer also the maps whose two amounts are both no numbers.
FraudMalformed ==
  Malformed({"txn_amount", "account_age_days", "txn_count_1h", "unique_devices_24h",
             "avg_txn_amount_7d", "is_new_device_flag"},
            {EmptyMap, ("txn_amount" :> Num(10000)) @@ ("account_age_days" :> Num(100))})
    \cup {("txn_amount" :> a) @@ ("avg_txn_amount_7d" :> b) :
            a \in NonNumbers, b \in NonNumbers}

ScorerInputs ==
  ({"weather"} \X (WeatherInputs \cup WeatherMalformed))
    \cup ({"crime"} \X (CrimeInputs \cup CrimeMalformed))
    \cup ({"fraud"} \X (FraudInputs \cup FraudMalformed))
    \cup ({"traffic"} \X {EmptyMap, ("rain_1h" :> Num(300))})

InitScorer == InitManager({DocMissing}) /\ InitIdle

\* await ml_service.predict(model_name, features)
Predict(model_name, features) ==
  /\ scored' = [model_name |-> model_name, features |-> features,
                result |-> predict(model_name, features, now)]
  /\ UNCHANGED <<config, dedupe_cache, now, ncalls, call, tasks, store, emitted>>

PredictOnce ==
  /\ scored = NoScore
  /\ \E in \in ScorerInputs : Predict(in[1], in[2])

\* raise HTTPException(status_code=..., detail=str(e))
HTTPException(status_code, detail) == [status_code |-> status_code, detail |-> detail]

\* The handler of POST /models/predict: the response on success, 400 for a
\* ValueError, 500 for every other exception.
predict_endpoint(model_name, features, current_time) ==
  LET result == predict(model_name, features, current_time)
  IN  IF ~Raised(result)
        THEN [status_code |-> 200,
              body |-> [score |-> result.score,
                        confidence |-> result.confidence,
                        top_features |-> result.top_features,
                        meta |-> result.meta]]
        ELSE IF result.raised = "ValueError"
          THEN HTTPException(400, result.raised)
          ELSE HTTPException(500, result.raised)

\* POST /models/predict with request.model_name and request.features
PostPredict(model_name, features) ==
  /\ scored' = [model_name |-> model_name, features |-> features,
                result |-> predict(model_name, features, now),
                response |-> predict_endpoint(model_name, features, now)]
  /\ UNCHANGED <<config, dedupe_cache, now, ncalls, call, tasks, store, emitted>>

PostPredictOnce ==
  /\ scored = NoScore
  /\ \E in \in ScorerInputs : PostPredict(in[1], in[2])

NextScorer == PredictOnce \/ PostPredictOnce

SpecScorer == InitScorer /\ [][NextScorer]_vars

(***************************************************************************)
(* SpecRepeat: MLService.predict called again and again, time passing       *)
(* between the calls                                                        *)
(***************************************************************************)
\* Feature maps that supply every field, three per field for two fields of
\* each scorer, and the empty map.
RepeatInputs ==
  ({"weather"} \X
     ({[rain_1h |-> Num(a), rain_3h |-> Num(b), rain_6h |-> Num(0),
        forecast_rain_3h |-> Num(0), temp_max_24h |-> Num(200), zscore_recent |-> Num(0)] :
          a \in {0, 200, 300}, b \in {0, 400, 600}} \cup {EmptyMap}))
    \cup ({"crime"} \X
     ({[incidents_last_1h |-> Num(a), incidents_last_3h |-> Num(0),
        incidents_last_24h |-> Num(0), hour_of_day |-> Num(b), weekday |-> Num(0),
        kde_density |-> Num(0), neighbor_incidents |-> Num(0)] :
          a \in {0, 50, 100}, b \in {0, 120, 230}} \cup {EmptyMap}))
    \cup ({"fraud"} \X
     ({[txn_amount |-> Num(a), account_age_days |-> Num(b), txn_count_1h |-> Num(0),
        unique_devices_24h |-> Num(10), avg_txn_amount_7d |-> Num(1000),
        is_new_device_flag |-> Bool(FALSE)] :
          a \in {0, 3000, 10000}, b \in {100, 300, 3650}} \cup {EmptyMap}))

PredictAgain == \E in \in RepeatInputs : Predict(in[1], in[2])

NextRepeat == PredictAgain \/ Tick

SpecRepeat == InitScorer /\ [][NextRepeat]_vars

(***************************************************************************)
(* SpecIngest: two process_event_async coroutines on the event loop, both   *)
(* using the module's one AlertManager.  A coroutine runs without           *)
(* interruption from one await to the next; between two awaits any other    *)
(* coroutine may run and time may pass.  fuse_signals holds no await.       *)
(***************************************************************************)
\* datetime.utcnow().hour and .weekday(), in tenths; minute 0 of the clock is
\* a Monday, 00:00.
HourOf(current_time) == ((current_time \div 60) % 24) * 10

WeekdayOf(current_time) == ((current_time \div 1440) % 7) * 10

extract_weather_features(payload) ==
  [rain_1h |-> FGet(payload, "rain_1h", Num(0)),
   rain_3h |-> FGet(payload, "rain_3h", Num(0)),
   rain_6h |-> FGet(payload, "rain_6h", Num(0)),
   forecast_rain_3h |-> FGet(payload, "forecast_rain_3h", Num(0)),
   temp_max_24h |-> FGet(payload, "temp_max_24h", Num(200)),
   zscore_recent |-> FGet(payload, "zscore_recent", Num(0))]

\* Seeded fault: the normalizer fills in the scorer's own defaults, 12 and 3.
extract_crime_features_scorer_defaults(payload, current_time) ==
  [incidents_last_1h |-> FGet(payload, "incidents_last_1h", Num(0)),
   incidents_last_3h |-> FGet(payload, "incidents_last_3h", Num(0)),
   incidents_last_24h |-> FGet(payload, "incidents_last_24h", Num(0)),
   hour_of_day |-> FGet(payload, "hour_of_day", Num(120)),
   weekday |-> FGet(payload, "weekday", Num(30)),
   kde_density |-> FGet(payload, "kde_density", Num(0)),
   neighbor_incidents |-> FGet(payload, "neighbor_incidents", Num(0))]

extract_crime_features(payload, current_time) ==
  [incidents_last_1h |-> FGet(payload, "incidents_last_1h", Num(0)),
   incidents_last_3h |-> FGet(payload, "incidents_last_3h", Num(0)),
   incidents_last_24h |-> FGet(payload, "incidents_last_24h", Num(0)),
   hour_of_day |-> FGet(payload, "hour_of_day", Num(HourOf(current_time))),
   weekday |-> FGet(payload, "weekday", Num(WeekdayOf(current_time))),
   kde_density |-> FGet(payload, "kde_density", Num(0)),
   neighbor_incidents |-> FGet(payload, "neighbor_incidents", Num(0))]

extract_fraud_features(payload) ==
  [txn_amount |-> FGet(payload, "txn_amount", Num(0)),
   account_age_days |-> FGet(payload, "account_age_days", Num(3650)),
   txn_count_1h |-> FGet(payload, "txn_count_1h", Num(0)),
   unique_devices_24h |-> FGet(payload, "unique_devices_24h", Num(10)),
   avg_txn_amount_7d |-> FGet(payload, "avg_txn_amount_7d", Num(1000)),
   is_new_device_flag |-> FGet(payload, "is_new_device_flag", Bool(FALSE))]

\* if source == "weather" or "weather" in payload, and so on
WantsWeather(ev) == ev.source = "weather" \/ "weather" \in DOMAIN ev.payload

WantsCrime(ev) == ev.source = "crime" \/ "crime" \in DOMAIN ev.payload

WantsFraud(ev) == ev.source = "fraud" \/ "transaction" \in DOMAIN ev.payload

\* The next await of the coroutine, or "fuse" when no predict call is left.
AfterCrime(ev) == IF WantsFraud(ev) THEN "await_fraud" ELSE "fuse"

AfterWeather(ev) == IF WantsCrime(ev) THEN "await_crime" ELSE AfterCrime(ev)

AfterStart(ev) == IF WantsWeather(ev) THEN "await_weather" ELSE AfterWeather(ev)

\* The features handed to the predict call the coroutine awaits at point.
FeaturesFor(point, payload, current_time) ==
  CASE point = "await_weather" -> extract_weather_features(payload)
    [] point = "await_crime" -> extract_crime_features(payload, current_time)
    [] point = "await_fraud" -> extract_fraud_features(payload)

\* Where process_event_async is after its except clause (line 113) has caught
\* an exception and printed it: the coroutine returns normally.
\* Seeded fault: the exception leaves process_event_async.
after_exception_propagates == "failed"

after_exception == "done"

\* A coroutine about to process event_data.
NewTask(ev) ==
  [event |-> ev, pc |-> "start",
   component_scores |-> <<>>, confidences |-> <<>>, evidence |-> <<>>,
   features |-> EmptyMap,
   fused |-> FALSE, fused_at |-> 0, weighted_score |-> 0, primary_type |-> "unknown",
   severity |-> "info", requires_approval |-> FALSE,
   alert_data |-> None, error |-> None]

Tasks == {1, 2}

\* The events: weather readings whose weighted scores are 0.16, 0.10 and
\* 0.40, a crime report (0.1225), a payload naming two domains, a
\* transaction, a source no scorer handles, a weather reading whose rain_1h
\* is the str "30", and a payload whose weather and crime scores are both 0.
Event(source, payload, location_id) ==
  [source |-> source, payload |-> payload, location_id |-> location_id]

IngestEvents ==
  { Event("weather", ("rain_1h" :> Num(300)), "L1"),
    Event("weather", ("rain_1h" :> Num(200)), "L1"),
    Event("weather",
          ("rain_1h" :> Num(300)) @@ ("rain_3h" :> Num(600)) @@ ("forecast_rain_3h" :> Num(500))
            @@ ("zscore_recent" :> Num(30)), "L1"),
    Event("weather", ("rain_1h" :> Num(300)), NoLocation),
    Event("crime", ("incidents_last_1h" :> Num(100)), "L1"),
    Event("sensor", ("weather" :> Num(1)) @@ ("crime" :> Num(1)) @@ ("rain_1h" :> Num(200)), "L1"),
    Event("bank", ("transaction" :> Num(1)) @@ ("txn_amount" :> Num(5000)), "L1"),
    Event("traffic", EmptyMap, "L1"),
    Event("weather", ("rain_1h" :> Str(<<51, 48>>)), "L1"),
    Event("sensor", ("weather" :> Num(1)) @@ ("crime" :> Num(1)), "L2") }

\* The cache the two events meet: empty, or holding what an earlier weather
\* alert for L1 left (weighted score 0.30, at minute 0).
IngestCaches ==
  { EmptyCache,
    CachePut(EmptyCache, CacheKey("L1", "weather"), [time |-> 0, score |-> 300000]) }

InitIngest ==
  /\ config = load_config(DocMissing)
  /\ now = 0
  /\ ncalls = 0
  /\ call = NoCall
  /\ scored = NoScore
  /\ store = <<>>
  /\ emitted = NoneEmitted
  /\ \E cache \in IngestCaches, e1 \in IngestEvents, e2 \in IngestEvents :
       /\ dedupe_cache = cache
       /\ tasks = <<NewTask(e1), NewTask(e2)>>

\* The coroutine i, its locals now t, runs on to point: it suspends there, or
\* (point = "fuse") runs lines 102-111: fuse_signals when component_scores is
\* not empty, and then awaits create_alert when an alert came back.
Proceed(i, t, point) ==
  IF point # "fuse"
    THEN /\ tasks' = [tasks EXCEPT ![i] =
                        [t EXCEPT !.pc = point,
                                  !.features = FeaturesFor(point, t.event.payload, now)]]
         /\ UNCHANGED dedupe_cache
    ELSE IF t.component_scores = <<>>
      THEN /\ tasks' = [tasks EXCEPT ![i] = [t EXCEPT !.pc = "done"]]
           /\ UNCHANGED dedupe_cache
      ELSE \E r \in {fuse_signals(config, dedupe_cache, now, t.component_scores,
                                  t.confidences, t.evidence, t.event.location_id)} :
             /\ dedupe_cache' = r.cache
             /\ tasks' = [tasks EXCEPT ![i] =
                            [t EXCEPT !.pc = IF Raised(r.ret) THEN after_exception
                                             ELSE IF IsNone(r.ret) THEN "done"
                                             ELSE "await_create",
                                      !.fused = TRUE,
                                      !.fused_at = now,
                                      !.weighted_score = r.weighted_score,
                                      !.primary_type = r.primary_type,
                                      !.severity = r.severity,
                                      !.requires_approval = r.requires_approval,
                                      !.alert_data = r.ret,
                                      !.error = IF Raised(r.ret) THEN r.ret ELSE None]]

\* process_event_async up to its first await
Start(i) ==
  /\ tasks[i].pc = "start"
  /\ Proceed(i, tasks[i], AfterStart(tasks[i].event))
  /\ UNCHANGED <<config, now, ncalls, call, scored, store, emitted>>

DomainAt(pc) ==
  CASE pc = "await_weather" -> "weather"
    [] pc = "await_crime" -> "crime"
    [] pc = "await_fraud" -> "fraud"

AfterDomain(domain, ev) ==
  CASE domain = "weather" -> AfterWeather(ev)
    [] domain = "crime" -> AfterCrime(ev)
    [] domain = "fraud" -> "fuse"

\* await ml_service.predict(...) returns: the score, the confidence and the
\* evidence are stored, and the coroutine runs on to its next await.  When
\* it raises, the except clause of line 113 prints the error and the
\* coroutine ends.
ResumePredict(i) ==
  /\ tasks[i].pc \in {"await_weather", "await_crime", "await_fraud"}
  /\ LET t == tasks[i]
         domain == DomainAt(t.pc)
     IN  \E result \in {predict(domain, t.features, now)} :
           IF Raised(result)
             THEN /\ tasks' = [tasks EXCEPT ![i].pc = after_exception,
                                            ![i].error = result]
                  /\ UNCHANGED dedupe_cache
             ELSE Proceed(i,
                     [t EXCEPT
                        !.component_scores = Append(@, <<domain, result.score>>),
                        !.confidences = Append(@, <<domain, result.confidence>>),
                        !.evidence = Append(@, [type |-> domain,
                                                source |-> t.event.source,
                                                timestamp |-> now,
                                                data |-> [features |-> t.features,
                                                          prediction |-> result]])],
                     AfterDomain(domain, t.event))
  /\ UNCHANGED <<config, now, ncalls, call, scored, store, emitted>>

\* await alert_manager.create_alert(alert_data): the row is inserted
CreateAlert(i) ==
  /\ tasks[i].pc = "await_create"
  /\ store' = Append(store, tasks[i].alert_data)
  /\ tasks' = [tasks EXCEPT ![i].pc = "done"]
  /\ UNCHANGED <<config, dedupe_cache, now, ncalls, call, scored, emitted>>

\* Seeded fault: a failed insert takes the alert's entry out of the cache.
CreateAlertFails_rolls_back(i) ==
  /\ tasks[i].pc = "await_create"
  /\ tasks' = [tasks EXCEPT ![i].pc = "done"]
  /\ dedupe_cache' =
       [k \in DOMAIN dedupe_cache
               \ {CacheKey(tasks[i].event.location_id, tasks[i].primary_type)} |->
          dedupe_cache[k]]
  /\ UNCHANGED <<config, now, ncalls, call, scored, store, emitted>>

\* ... or the insert raises: create_alert prints the error and returns None
CreateAlertFails(i) ==
  /\ tasks[i].pc = "await_create"
  /\ tasks' = [tasks EXCEPT ![i].pc = "done"]
  /\ UNCHANGED <<config, dedupe_cache, now, ncalls, call, scored, store, emitted>>

NextIngest ==
  \/ \E i \in Tasks : Start(i)
  \/ \E i \in Tasks : ResumePredict(i)
  \/ \E i \in Tasks : CreateAlert(i)
  \/ \E i \in Tasks : CreateAlertFails(i)
  \/ Tick

SpecIngest == InitIngest /\ [][NextIngest]_vars

(***************************************************************************)
(* SpecEvent: one POST /ingest request from its arrival to its response,    *)
(* over many events, at several times of the week                           *)
(***************************************************************************)
\* supabase.table("events").insert(event_data).execute() returned the row:
\* ingest_event goes on to await process_event_async(result.data[0]).
StoreEvent(i) ==
  /\ tasks[i].pc = "received"
  /\ tasks' = [tasks EXCEPT ![i].pc = "start"]
  /\ UNCHANGED <<config, dedupe_cache, now, ncalls, call, scored, store, emitted>>

\* ... or the insert raised or returned no row: ingest_event raises
\* HTTPException(500) and the event is not processed.
StoreEventFails(i) ==
  /\ tasks[i].pc = "received"
  /\ tasks' = [tasks EXCEPT ![i].pc = "rejected"]
  /\ UNCHANGED <<config, dedupe_cache, now, ncalls, call, scored, store, emitted>>

\* What ingest_event answers for the request of coroutine t: nothing while
\* it runs, IngestEventResponse(status="ingested") once process_event_async
\* has returned, HTTPException(500) when the insert failed or an exception
\* reached the except clause of line 38.
ingest_response(t) ==
  CASE t.pc = "done" -> [status_code |-> 200, body |-> [status |-> "ingested"]]
    [] t.pc \in {"rejected", "failed"} -> HTTPException(500, "error")
    [] OTHER -> None

\* Monday 00:00, Monday 23:00, Thursday 12:00 and Sunday 23:59.
EventClocks == {0, 1380, 5040, 10079}

\* Feature maps that score highest in their domain.
MaxWeather ==
  ("rain_1h" :> Num(300)) @@ ("rain_3h" :> Num(600)) @@ ("forecast_rain_3h" :> Num(500))
    @@ ("zscore_recent" :> Num(30))

MaxCrime ==
  ("incidents_last_1h" :> Num(Huge)) @@ ("incidents_last_3h" :> Num(Huge))
    @@ ("incidents_last_24h" :> Num(Huge)) @@ ("hour_of_day" :> Num(Huge))
    @@ ("weekday" :> Num(Huge)) @@ ("kde_density" :> Num(Huge))
    @@ ("neighbor_incidents" :> Num(Huge))

MaxFraud ==
  ("txn_amount" :> Num(10000)) @@ ("account_age_days" :> Num(100))
    @@ ("txn_count_1h" :> Num(60)) @@ ("unique_devices_24h" :> Num(40))
    @@ ("is_new_device_flag" :> Bool(TRUE))

\* Payloads of one domain: every field present or absent, keys no normalizer
\* declares, values that are no numbers.
EventWeatherPayloads ==
  FeatureMaps(<< <<"rain_1h", Nums({0, 200, 300}) \cup {None, Str(<<51, 48>>)}>>,
                 <<"rain_3h", Nums({600})>>,
                 <<"rain_6h", Nums({50})>>,
                 <<"forecast_rain_3h", Nums({500})>>,
                 <<"temp_max_24h", Nums({-400})>>,
                 <<"zscore_recent", Nums({30})>>,
                 <<"station", {Str(<<97>>)}>> >>)

EventCrimePayloads ==
  FeatureMaps(<< <<"incidents_last_1h", Nums({0, 50, Huge}) \cup {None}>>,
                 <<"incidents_last_3h", Nums({150})>>,
                 <<"incidents_last_24h", Nums({500})>>,
                 <<"hour_of_day", Nums({0, 120, 230})>>,
                 <<"weekday", Nums({30, 60})>>,
                 <<"kde_density", Nums({5})>>,
                 <<"neighbor_incidents", Nums({100})>>,
                 <<"reporter", {Str(<<97>>)}>> >>)

EventFraudPayloads ==
  FeatureMaps(<< <<"txn_amount", Nums({3010, 10000}) \cup {Str(<<97>>)}>>,
                 <<"account_age_days", Nums({100})>>,
                 <<"txn_count_1h", Nums({60})>>,
                 <<"unique_devices_24h", Nums({40})>>,
                 <<"avg_txn_amount_7d", Nums({1000})>>,
                 <<"is_new_device_flag", {Bool(TRUE)}>>,
                 <<"merchant", {Str(<<97>>)}>> >>)

\* Payloads that name several domains, each with its highest-scoring fields
\* or with none.
EventMixedPayloads ==
  {w @@ c @@ f : w \in {EmptyMap, ("weather" :> Num(1)), ("weather" :> Num(1)) @@ MaxWeather},
                 c \in {EmptyMap, ("crime" :> Num(1)), ("crime" :> Num(1)) @@ MaxCrime},
                 f \in {EmptyMap, ("transaction" :> Num(1)),
                        ("transaction" :> Num(1)) @@ MaxFraud}}

EventInputs ==
  {Event("weather", p, "L1") : p \in EventWeatherPayloads}
    \cup {Event("crime", p, "L1") : p \in EventCrimePayloads}
    \cup {Event("fraud", p, "L1") : p \in EventFraudPayloads}
    \cup {Event("sensor", p, loc) : p \in EventMixedPayloads, loc \in {"L1", NoLocation}}

\* The module's AlertManager with the default configuration, or with one
\* whose severity_thresholds lack two tiers.
InitEvent ==
  /\ config \in {load_config(DocMissing), load_config(DocPartialThresholds)}
  /\ dedupe_cache = EmptyCache
  /\ now \in EventClocks
  /\ ncalls = 0
  /\ call = NoCall
  /\ scored = NoScore
  /\ store = <<>>
  /\ emitted = NoneEmitted
  /\ \E ev \in EventInputs : tasks = <<[NewTask(ev) EXCEPT !.pc = "received"]>>

NextEvent ==
  \/ StoreEvent(1)
  \/ StoreEventFails(1)
  \/ Start(1)
  \/ ResumePredict(1)
  \/ CreateAlert(1)
  \/ CreateAlertFails(1)

SpecEvent == InitEvent /\ [][NextEvent]_vars

(***************************************************************************)
(* Properties of fuse_signals                                               *)
(***************************************************************************)
\* A fuse_signals call has just returned.
Called == ncalls >= 1

Returned == Called /\ ~IsNone(call.ret) /\ ~Raised(call.ret)

\* The step is a fuse_signals call (its arguments and results are in call').
IsCall == ncalls' = ncalls + 1

\* The call c finds, in cache, an entry for its key that is younger than the
\* window and whose score is less than 0.15 away.
RepeatsCached(c, cache, cfg) ==
  LET key == <<c.location_id, c.primary_type>>
  IN  /\ key \in DOMAIN cache
      /\ c.time - cache[key].time < cfg.dedupe_window_minutes
      /\ c.weighted_score - cache[key].score < DuplicateScoreDelta
      /\ cache[key].score - c.weighted_score < DuplicateScoreDelta

\* C1: a call with a location_id whose key has a cache entry younger than
\* dedupe_window_minutes, with a score less than 0.15 from the cached one,
\* returns None and leaves the dedup cache (time and score of the entry, and
\* everything else) unchanged.
C1_DuplicateSuppressed ==
  [][ (IsCall /\ Truthy(call'.location_id)
         /\ RepeatsCached(call', dedupe_cache, config))
        => (IsNone(call'.ret) /\ dedupe_cache' = dedupe_cache) ]_vars

\* A duplicate was suppressed: a second call for a cached key, later but
\* inside the window, with another score less than 0.15 away.
C1_Witness ==
  /\ Called /\ IsNone(call.ret)
  /\ Truthy(call.location_id)
  /\ call.had_entry
  /\ call.time > call.last_alert_time
  /\ call.weighted_score # call.last_score
  /\ dedupe_cache[<<call.location_id, call.primary_type>>]
       = [time |-> call.last_alert_time, score |-> call.last_score]

\* C2: a call with a location_id and non-empty component_scores that is no
\* duplicate (no entry for the key, or an entry at least the window old, or a
\* score 0.15 or more away) returns an alert and leaves the key's cache entry
\* at (time of the call, weighted score of the call).
C2_NonDuplicateEmitted ==
  [][ (IsCall /\ Truthy(call'.location_id) /\ call'.component_scores # <<>>
         /\ ~RepeatsCached(call', dedupe_cache, config))
        => LET key == <<call'.location_id, call'.primary_type>>
           IN  /\ ~IsNone(call'.ret)
               /\ call'.ret.final_score = call'.weighted_score
               /\ key \in DOMAIN dedupe_cache'
               /\ dedupe_cache'[key] = [time |-> now, score |-> call'.weighted_score] ]_vars

\* An alert was emitted on the boundary: the cached entry was younger than
\* the window and its score exactly 0.15 away, and the entry was overwritten.
C2_Witness ==
  /\ Returned
  /\ Truthy(call.location_id)
  /\ call.had_entry
  /\ call.time - call.last_alert_time < config.dedupe_window_minutes
  /\ Abs(call.weighted_score - call.last_score) = DuplicateScoreDelta
  /\ dedupe_cache[<<call.location_id, call.primary_type>>]
       = [time |-> call.time, score |-> call.weighted_score]

\* The other two cases of C2: an entry exactly the window old, and no entry.
C2_WitnessWindow ==
  /\ Returned
  /\ call.had_entry
  /\ call.time - call.last_alert_time = config.dedupe_window_minutes
  /\ call.weighted_score = call.last_score

C2_WitnessNoEntry ==
  /\ Returned /\ Truthy(call.location_id) /\ ~call.had_entry /\ ncalls = 2

\* C4, as claimed: with empty component_scores fuse_signals returns None and
\* leaves the dedup cache alone, whatever the location_id and the cache.
C4_EmptyReturnsNone ==
  [][ (IsCall /\ call'.component_scores = <<>>)
        => (IsNone(call'.ret) /\ dedupe_cache' = dedupe_cache) ]_vars

\* C5, as claimed: every alert returned carries a requires_approval flag
\* equal to the human-approval gate computed for the event.
C5_ApprovalFlagSurfaced ==
  Returned =>
    /\ "requires_approval" \in DOMAIN call.ret
    /\ call.ret.requires_approval = call.requires_approval

\* Number of domains of the dict whose raw score is strictly above 0.3.
ActiveCount(cs) == Cardinality({d \in Keys(cs) : Get(cs, d, 0) >= 3001})

\* mean(confidences) < bound, the mean of no confidences being 0.0.
MeanBelow(cf, bound) ==
  IF cf = <<>> THEN 0 < bound ELSE SumSeq(Values(cf)) < bound * Len(cf)

\* C6: the human-approval gate is true exactly when the severity is critical
\* and auto-escalation is disabled, or the active signals are fewer than
\* required_corroboration, or the mean confidence is below
\* auto_escalation_confidence; it is false for every other severity.
C6_ApprovalGate ==
  Called =>
    (call.requires_approval <=>
       /\ call.severity = "critical"
       /\ \/ ~config.auto_escalation_enabled
          \/ ActiveCount(call.component_scores) < config.required_corroboration
          \/ MeanBelow(call.confidences, config.auto_escalation_confidence))

\* A critical event, auto-escalation enabled and corroborated, that needs
\* approval for its confidence alone.
C6_Witness ==
  /\ Called /\ call.requires_approval
  /\ config.auto_escalation_enabled
  /\ ActiveCount(call.component_scores) >= config.required_corroboration

\* Critical events that need approval for the missing corroboration alone,
\* that need none, and a non-critical event with auto-escalation disabled.
C6_WitnessCorroboration ==
  /\ Called /\ call.requires_approval
  /\ config.auto_escalation_enabled
  /\ ~MeanBelow(call.confidences, config.auto_escalation_confidence)

C6_WitnessNoApproval ==
  Called /\ call.severity = "critical" /\ ~call.requires_approval

C6_WitnessNotCritical ==
  /\ Called /\ call.severity = "warning" /\ ~config.auto_escalation_enabled
  /\ ~call.requires_approval

\* The tiers, lowest first.
Rank(severity) ==
  CASE severity = "info" -> 0
    [] severity = "watch" -> 1
    [] severity = "warning" -> 2
    [] severity = "critical" -> 3

\* adjusted score (weighted score w times mean confidence c) >= threshold t
Meets(w, c, t) == w * c.num >= t * 1000000 * c.den

\* The highest of critical, warning, watch whose threshold is met; else info.
HighestMet(cfg, w, c) ==
  LET met == {t \in {"critical", "warning", "watch"} :
                Meets(w, c, cfg.severity_thresholds[t])}
  IN  IF met = {} THEN "info"
      ELSE CHOOSE t \in met : \A u \in met : Rank(u) <= Rank(t)

\* Weighted scores and mean confidences to compare the call's with.
GridScores == {0, 200000, 360000, 450000, 650000, 750000, 850000, 1000000}

GridConfidences ==
  {[num |-> n, den |-> 1] : n \in {0, 45, 60, 85, 100}} \cup {[num |-> 185, den |-> 2]}

Ascending(th) ==
  th["info"] <= th["watch"] /\ th["watch"] <= th["warning"]
    /\ th["warning"] <= th["critical"]

\* C7: the severity is the highest tier among critical, warning, watch whose
\* threshold the adjusted score meets or exceeds, info otherwise (so a score
\* equal to a threshold gets that tier), and with ascending thresholds it is
\* monotone in the adjusted score.
C7_Severity ==
  Called =>
    /\ call.severity = HighestMet(config, call.weighted_score, call.avg_confidence)
    /\ Ascending(config.severity_thresholds) =>
         \A w \in GridScores, c \in GridConfidences :
           LET other == calculate_severity(config, w, c, <<>>)
               a == call.avg_confidence
           IN  /\ w * c.num * a.den <= call.weighted_score * a.num * c.den
                    => Rank(other) <= Rank(call.severity)
               /\ w * c.num * a.den >= call.weighted_score * a.num * c.den
                    => Rank(other) >= Rank(call.severity)

\* An adjusted score exactly on the watch threshold is graded watch (under
\* the defaults: 0.75 * 0.6 = 0.45).
C7_Witness ==
  /\ Called
  /\ call.weighted_score > 0
  /\ call.weighted_score * call.avg_confidence.num
       = config.severity_thresholds["watch"] * 1000000 * call.avg_confidence.den
  /\ call.severity = "watch"

\* The same on the critical threshold.
C7_WitnessCritical ==
  /\ Called
  /\ call.weighted_score * call.avg_confidence.num
       = config.severity_thresholds["critical"] * 1000000 * call.avg_confidence.den
  /\ call.severity = "critical"

\* The score of position i of the dict times its domain's configured weight,
\* nothing for a domain without one.
RECURSIVE WeightedFrom(_, _, _)
WeightedFrom(cfg, cs, i) ==
  IF i > Len(cs) THEN 0
  ELSE (IF cs[i][1] \in DOMAIN cfg.domain_weights
          THEN cs[i][2] * cfg.domain_weights[cs[i][1]]
          ELSE 0)
       + WeightedFrom(cfg, cs, i + 1)

PositiveThresholds(cfg) ==
  \A t \in {"critical", "warning", "watch"} : cfg.severity_thresholds[t] > 0

\* C8: the weighted score is the sum of score * weight over the configured
\* domains, a configured domain without a score and a scored domain without a
\* weight adding nothing; the mean confidence is sum / count, and 0.0 for no
\* confidences, and then (the thresholds above info being positive) the
\* severity is info.
C8_WeightedScoreAndMean ==
  Called =>
    /\ call.weighted_score = WeightedFrom(config, call.component_scores, 1)
    /\ ~IsNone(call.ret) => call.ret.final_score = call.weighted_score
    /\ call.confidences # <<>> =>
         /\ call.avg_confidence.num = SumSeq(Values(call.confidences))
         /\ call.avg_confidence.den = Len(call.confidences)
    /\ call.confidences = <<>> =>
         /\ call.avg_confidence.num = 0
         /\ PositiveThresholds(config) => call.severity = "info"

\* A call scoring a domain that has no weight and lacking one that has,
\* with two confidences.
C8_Witness ==
  /\ Called
  /\ Keys(call.component_scores) \ DOMAIN config.domain_weights # {}
  /\ DOMAIN config.domain_weights \ Keys(call.component_scores) # {}
  /\ call.weighted_score > 0
  /\ Len(call.confidences) = 2

\* No confidences at all, with scores that would otherwise be critical.
C8_WitnessNoConfidence ==
  /\ Called /\ call.confidences = <<>> /\ call.weighted_score = 1000000
  /\ call.severity = "info"

\* The domain d has the largest score of the dict, and no domain inserted
\* before it has a score as large.
FirstMaximal(cs, d) ==
  \E i \in 1..Len(cs) :
    /\ cs[i][1] = d
    /\ \A j \in 1..Len(cs) : cs[j][2] <= cs[i][2]
    /\ \A j \in 1..Len(cs) : cs[j][2] = cs[i][2] => i <= j

PipelineOrder == <<"weather", "crime", "fraud">>

\* The keys of the dict are in the order weather, crime, fraud.
InPipelineOrder(cs) ==
  \A i \in 1..Len(cs), j \in 1..Len(cs) :
    i < j => \E a \in 1..3, b \in 1..3 :
               a < b /\ PipelineOrder[a] = cs[i][1] /\ PipelineOrder[b] = cs[j][1]

\* C15: the primary type of a fusion of at least one domain is a domain of
\* component_scores whose raw score is maximal, the first such in insertion
\* order, and it is the primary_type of the alert; the ingest pipeline
\* inserts weather before crime before fraud.
C15_PrimaryDomain ==
  /\ (Called /\ call.component_scores # <<>>) =>
       /\ FirstMaximal(call.component_scores, call.primary_type)
       /\ Returned => call.ret.primary_type = call.primary_type
  /\ \A i \in 1..Len(tasks) :
       /\ InPipelineOrder(tasks[i].component_scores)
       /\ tasks[i].fused => FirstMaximal(tasks[i].component_scores, tasks[i].primary_type)

\* A tie of three maximal scores inserted fraud, crime, weather: fraud.
C15_Witness ==
  /\ Called
  /\ call.component_scores = <<<<"fraud", 10000>>, <<"crime", 10000>>, <<"weather", 10000>>>>
  /\ call.primary_type = "fraud"

\* A tie behind a smaller score: crime, the first of the two maximal ones.
C15_WitnessSecond ==
  /\ Called
  /\ call.component_scores = <<<<"weather", 3000>>, <<"crime", 9000>>, <<"fraud", 9000>>>>
  /\ call.primary_type = "crime"

\* In the pipeline: weather and crime both scored 0, weather is primary.
C15_WitnessPipeline ==
  \E i \in 1..Len(tasks) :
    /\ tasks[i].fused
    /\ tasks[i].component_scores = <<<<"weather", 0>>, <<"crime", 0>>>>
    /\ tasks[i].primary_type = "weather"

\* The configuration _load_config returns when there is no file.
Defaults ==
  /\ config.domain_weights = [weather |-> 40, crime |-> 35, fraud |-> 25]
  /\ config.severity_thresholds["watch"] = 45

\* C9: under the default configuration a fusion of exactly one domain is
\* graded info; {weather: 0.9} with confidence 0.9 has weighted score 0.36
\* and adjusted score 0.324.
C9_SingleDomainIsInfo ==
  (Called /\ config = load_config(DocMissing)) =>
    /\ Defaults
    /\ Len(call.component_scores) = 1 => call.severity = "info"
    /\ (call.component_scores = <<<<"weather", 9000>>>>
          /\ call.confidences = <<<<"weather", 90>>>>)
         => /\ call.weighted_score = 360000
            /\ call.weighted_score * call.avg_confidence.num
                 = 32400000 * call.avg_confidence.den
            /\ call.severity = "info"

\* The example of C9.
C9_Witness ==
  /\ Called /\ config = load_config(DocMissing)
  /\ call.component_scores = <<<<"weather", 9000>>>>
  /\ call.confidences = <<<<"weather", 90>>>>
  /\ call.severity = "info"

\* The strongest single signal: score 1.0 at confidence 1.0.
C9_WitnessStrongest ==
  /\ Called /\ config = load_config(DocMissing)
  /\ call.component_scores = <<<<"weather", 10000>>>>
  /\ call.confidences = <<<<"weather", 100>>>>
  /\ call.severity = "info"

(***************************************************************************)
(* Properties of the scorers                                                *)
(***************************************************************************)
\* A scorer has returned a result.
Scored == scored # NoScore /\ ~Raised(scored.result)

\* The contributions of the rules a ladder fired add up to more than 1.0.
Overshoots(result) == LadderScore(result.top_features) > 10000

\* C10: for every feature map (keys missing, values negative or huge) each
\* scorer returns a score in [0,1] and a confidence in [0,1]; the score is
\* 1.0 when the fired contributions add up to more (weather: 1.05).
C10_ScoreAndConfidenceInRange ==
  Scored =>
    /\ 0 <= scored.result.score /\ scored.result.score <= 10000
    /\ 0 <= scored.result.confidence /\ scored.result.confidence <= 100
    /\ (scored.model_name \in {"weather", "fraud"} /\ Overshoots(scored.result))
         => scored.result.score = 10000

\* The weather ladder with all four rules fired: 0.4 + 0.3 + 0.2 + 0.15.
C10_Witness ==
  /\ Scored /\ scored.model_name = "weather"
  /\ LadderScore(scored.result.top_features) = 10500
  /\ scored.result.score = 10000

\* Negative and huge values reach the crime and fraud scorers.
C10_WitnessCrime ==
  /\ Scored /\ scored.model_name = "crime"
  /\ scored.features = ("incidents_last_1h" :> Num(-10)) @@ ("incidents_last_3h" :> Num(Huge))
  /\ scored.result.score = 2500 + 250 + 215

C10_WitnessFraud ==
  /\ Scored /\ scored.model_name = "fraud"
  /\ scored.result.score = 10000 /\ scored.result.confidence = 75

(***************************************************************************)
(* Properties of _load_config                                               *)
(***************************************************************************)
\* The documented defaults of section 4.5.
DocumentedDefaults ==
  [domain_weights |-> [weather |-> 40, crime |-> 35, fraud |-> 25],
   severity_thresholds |-> [critical |-> 85, warning |-> 65, watch |-> 45, info |-> 0],
   required_corroboration |-> 2,
   auto_escalation_enabled |-> TRUE,
   auto_escalation_confidence |-> 85,
   dedupe_window_minutes |-> 30]

\* The value the document supplies for a field, or for an entry of one of
\* the two nested maps, and the documented default where it supplies none.
Effective(doc, field) ==
  IF field \notin DOMAIN doc.map THEN DocumentedDefaults[field]
  ELSE IF field \in {"domain_weights", "severity_thresholds"}
    THEN [k \in DOMAIN DocumentedDefaults[field] \cup DOMAIN doc.map[field] |->
            IF k \in DOMAIN doc.map[field] THEN doc.map[field][k]
            ELSE DocumentedDefaults[field][k]]
    ELSE doc.map[field]

\* C13, as claimed: after loading a document that omits fields, every field
\* of the configuration holds the supplied value or else its documented
\* default, entries of domain_weights and severity_thresholds included, and
\* a fuse_signals call raises nothing and weighs the scores accordingly.
C13_OmittedFieldsDefault ==
  \A doc \in PartialDocs :
    config = load_config(doc) =>
      /\ \A field \in DOMAIN DocumentedDefaults : config[field] = Effective(doc, field)
      /\ Called =>
           /\ ~Raised(call.ret)
           /\ call.weighted_score
                = SumOver([d \in Keys(call.component_scores) |->
                             Get(call.component_scores, d, 0)
                               * Effective(doc, "domain_weights")[d]],
                          Keys(call.component_scores))

\* C14, as claimed: when the file is missing, is rejected by the parser, or
\* loads as something that is no mapping, the configuration is exactly the
\* built-in default.
C14_LoadFailureGivesDefaults ==
  \A doc \in FailingDocs : config = load_config(doc) => config = default_config

\* The keys a scorer reads as numbers.
NumericKeys(model_name) ==
  CASE model_name = "weather" ->
         {"rain_1h", "rain_3h", "rain_6h", "forecast_rain_3h", "temp_max_24h",
          "zscore_recent"}
    [] model_name = "crime" -> {CrimeFeatures[i] : i \in 1..7}
    [] model_name = "fraud" ->
         {"txn_amount", "account_age_days", "txn_count_1h", "unique_devices_24h",
          "avg_txn_amount_7d"}

KnownModels == {"weather", "crime", "fraud"}

\* The numeric keys of the map whose value is a str or None.
MalformedKeys(model_name, features) ==
  {k \in DOMAIN features \cap NumericKeys(model_name) : ~IsNumber(features[k])}

\* The map without the keys ks, which are then read as their defaults.
WithoutKeys(features, ks) == [k \in DOMAIN features \ ks |-> features[k]]

\* C11, as claimed: a predict call whose feature map holds a str or None
\* under a numeric key raises nothing and returns the result of the same map
\* with that field at its default.
C11_MalformedTreatedAsDefault ==
  (scored # NoScore /\ scored.model_name \in KnownModels
     /\ MalformedKeys(scored.model_name, scored.features) # {})
    => /\ ~Raised(scored.result)
       /\ scored.result
            = predict(scored.model_name,
                      WithoutKeys(scored.features,
                                  MalformedKeys(scored.model_name, scored.features)),
                      now)

\* C12: a predict call for a model other than weather, crime and fraud
\* raises ValueError, whatever the features, and returns no score; the
\* endpoint answers it with status 400.
C12_UnknownModelIsCallerError ==
  (scored # NoScore /\ scored.model_name \notin KnownModels)
    => /\ scored.result = ValueError
       /\ "response" \in DOMAIN scored
            => /\ scored.response.status_code = 400
               /\ "body" \notin DOMAIN scored.response

\* POST /models/predict for model "traffic" with weather features.
C12_Witness ==
  /\ scored # NoScore /\ scored.model_name = "traffic"
  /\ scored.features # EmptyMap
  /\ "response" \in DOMAIN scored
  /\ scored.response.status_code = 400

\* The direct call.
C12_WitnessDirect ==
  /\ scored # NoScore /\ scored.model_name = "traffic"
  /\ "response" \notin DOMAIN scored
  /\ Raised(scored.result)

\* The number a scorer reads for the key: the value present, else default.
Val(features, key, default) == N(FGet(features, key, Num(default)))

\* The names of the entries of a list are all different.
DistinctNames(entries) ==
  \A i \in 1..Len(entries), j \in 1..Len(entries) :
    i # j => entries[i].name # entries[j].name

\* The entry list holds exactly one entry (name, amount) when amount > 0 and
\* no entry of that name otherwise.
HasEntry(entries, name, amount) ==
  IF amount > 0
    THEN \E i \in 1..Len(entries) : entries[i] = [name |-> name, contribution |-> amount]
    ELSE \A i \in 1..Len(entries) : entries[i].name # name

\* C16: the weather score is min(1, a + b + c + d) with a from rain_1h
\* (0.4 above 25, else 0.25 above 15), b from rain_3h (0.3 above 50, else
\* 0.15 above 30), c = 0.2 for forecast_rain_3h above 40, d = 0.15 for
\* zscore_recent above 2.5, all comparisons strict; each feature has at most
\* one entry in the contributions; the confidence is 0.7 for rain_1h > 0 and
\* 0.5 otherwise; rain_1h = 30 with the others 0 gives 0.4 and 0.7.
C16_WeatherLadder ==
  (Scored /\ scored.model_name = "weather") =>
    LET f == scored.features
        rain_1h == Val(f, "rain_1h", 0)
        rain_3h == Val(f, "rain_3h", 0)
        forecast_rain_3h == Val(f, "forecast_rain_3h", 0)
        zscore_recent == Val(f, "zscore_recent", 0)
        a == IF rain_1h >= 251 THEN 4000 ELSE IF rain_1h >= 151 THEN 2500 ELSE 0
        b == IF rain_3h >= 501 THEN 3000 ELSE IF rain_3h >= 301 THEN 1500 ELSE 0
        c == IF forecast_rain_3h >= 401 THEN 2000 ELSE 0
        d == IF zscore_recent >= 26 THEN 1500 ELSE 0
        top == scored.result.top_features
    IN  /\ scored.result.score = Min(10000, a + b + c + d)
        /\ scored.result.confidence = (IF rain_1h >= 1 THEN 70 ELSE 50)
        /\ DistinctNames(top)
        /\ HasEntry(top, "rain_1h", a) /\ HasEntry(top, "rain_3h", b)
        /\ HasEntry(top, "forecast_rain_3h", c) /\ HasEntry(top, "zscore_recent", d)
        /\ (rain_1h = 300 /\ rain_3h = 0 /\ forecast_rain_3h = 0 /\ zscore_recent = 0)
             => (scored.result.score = 4000 /\ scored.result.confidence = 70)

\* The example: rain_1h = 30, the other three given as 0.
C16_Witness ==
  /\ Scored /\ scored.model_name = "weather"
  /\ {"rain_1h", "rain_3h", "forecast_rain_3h", "zscore_recent"} \subseteq DOMAIN scored.features
  /\ scored.features["rain_1h"] = Num(300) /\ scored.features["rain_3h"] = Num(0)
  /\ scored.features["forecast_rain_3h"] = Num(0)
  /\ scored.features["zscore_recent"] = Num(0)
  /\ scored.result.score = 4000 /\ scored.result.confidence = 70

\* Every feature exactly on its threshold: nothing fires.
C16_WitnessBoundary ==
  /\ Scored /\ scored.model_name = "weather"
  /\ Val(scored.features, "rain_1h", 0) = 150 /\ Val(scored.features, "rain_3h", 0) = 300
  /\ Val(scored.features, "forecast_rain_3h", 0) = 400
  /\ Val(scored.features, "zscore_recent", 0) = 25
  /\ scored.result.score = 0 /\ scored.result.confidence = 70

\* C17: the fraud score is min(1, sum of the triggered rules) over the five
\* rules txn_amount > 3 * avg_txn_amount_7d (0.3), account_age_days < 30
\* (0.25), txn_count_1h > 5 (0.2), unique_devices_24h > 3 (0.15),
\* is_new_device_flag (0.1); the confidence is 0.75 exactly when at least two
\* rules triggered, else 0.55; txn_amount 1000, average 100, age 10 and no
\* other rule gives 0.55 and 0.75.
C17_FraudRules ==
  (Scored /\ scored.model_name = "fraud"
     /\ IsNumber(FGet(scored.features, "txn_amount", Num(0)))) =>
    LET f == scored.features
        r1 == Val(f, "txn_amount", 0) > 3 * Val(f, "avg_txn_amount_7d", 1000)
        r2 == Val(f, "account_age_days", 3650) <= 299
        r3 == Val(f, "txn_count_1h", 0) >= 51
        r4 == Val(f, "unique_devices_24h", 10) >= 31
        r5 == Truth(FGet(f, "is_new_device_flag", Bool(FALSE)))
        triggered == Cardinality({i \in 1..5 : <<r1, r2, r3, r4, r5>>[i]})
        total == (IF r1 THEN 3000 ELSE 0) + (IF r2 THEN 2500 ELSE 0)
                   + (IF r3 THEN 2000 ELSE 0) + (IF r4 THEN 1500 ELSE 0)
                   + (IF r5 THEN 1000 ELSE 0)
    IN  /\ scored.result.score = Min(10000, total)
        /\ scored.result.confidence = 75 <=> triggered >= 2
        /\ scored.result.confidence = 55 <=> triggered <= 1
        /\ (r1 /\ r2 /\ triggered = 2) => scored.result.score = 5500

\* The example.
C17_Witness ==
  /\ Scored /\ scored.model_name = "fraud"
  /\ scored.features
       = [txn_amount |-> Num(10000), avg_txn_amount_7d |-> Num(1000),
          account_age_days |-> Num(100), txn_count_1h |-> Num(0),
          unique_devices_24h |-> Num(10), is_new_device_flag |-> Bool(FALSE)]
  /\ scored.result.score = 5500 /\ scored.result.confidence = 75

\* Exactly one rule, and every value on its threshold (no rule).
C17_WitnessOneRule ==
  /\ Scored /\ scored.model_name = "fraud"
  /\ Len(scored.result.top_features) = 1
  /\ scored.result.confidence = 55

C17_WitnessBoundary ==
  /\ Scored /\ scored.model_name = "fraud"
  /\ scored.features
       = [txn_amount |-> Num(3000), avg_txn_amount_7d |-> Num(1000),
          account_age_days |-> Num(300), txn_count_1h |-> Num(50),
          unique_devices_24h |-> Num(30), is_new_device_flag |-> Bool(FALSE)]
  /\ scored.result.score = 0

\* clip(value / scale, 0, 1) in hundredths, value in tenths.
ClippedRatio(value, scale) ==
  IF value <= 0 THEN 0
  ELSE IF value >= 10 * scale THEN 100
  ELSE (20 * value + scale) \div (2 * scale)

ClaimedScales == <<10, 30, 100, 24, 7, 1, 20>>

ClaimedWeights == <<35, 25, 15, 5, 5, 10, 5>>

\* sum over the seven features of clip(feature / scale, 0, 1) * weight
ClaimedCrimeSum(features) ==
  SumSeq([i \in 1..7 |->
            ClippedRatio(Val(features, CrimeFeatures[i], CrimeDefaults[i]), ClaimedScales[i])
              * ClaimedWeights[i]])

C18_WitnessClipped ==
  /\ Scored /\ scored.model_name = "crime"
  /\ Val(scored.features, "incidents_last_1h", 0) < 0
  /\ Val(scored.features, "incidents_last_3h", 0) = Huge
  /\ Val(scored.features, "kde_density", 0) = 5
  /\ scored.result.score > 3000 /\ scored.result.score < 10000
  /\ scored.result.confidence = 60

\* The keys a scorer reads.
AllKeys(model_name) ==
  IF model_name = "fraud" THEN NumericKeys(model_name) \cup {"is_new_device_flag"}
  ELSE NumericKeys(model_name)

\* C19, as claimed: a predict call with the model and the feature map of the
\* call before it, every field supplied, returns the same record, whatever
\* time has passed between the two.
C19_RepeatedCallsIdentical ==
  [][ (/\ scored # NoScore
       /\ scored.model_name \in KnownModels
       /\ AllKeys(scored.model_name) \subseteq DOMAIN scored.features
       /\ scored'.model_name = scored.model_name
       /\ scored'.features = scored.features)
        => scored'.result = scored.result ]_vars

\* C20: the top_features of every result are at most 5 and in non-increasing
\* order of contribution.
C20_TopFeaturesSortedCapped ==
  Scored =>
    LET top == scored.result.top_features
    IN  /\ Len(top) <= 5
        /\ \A i \in 1..(Len(top) - 1) : top[i].contribution >= top[i + 1].contribution

\* The weather rules fired in the order rain_1h (0.25), rain_3h (0.3): the
\* list returned starts with rain_3h.
C20_Witness ==
  /\ Scored /\ scored.model_name = "weather"
  /\ Len(scored.result.top_features) >= 2
  /\ scored.result.top_features[1] = [name |-> "rain_3h", contribution |-> 3000]
  /\ scored.result.top_features[2] = [name |-> "rain_1h", contribution |-> 2500]

\* Five entries: all fraud rules, and the crime scorer with kde_density first.
C20_WitnessFive ==
  /\ Scored /\ scored.model_name = "fraud" /\ Len(scored.result.top_features) = 5

C20_WitnessCrime ==
  /\ Scored /\ scored.model_name = "crime" /\ Len(scored.result.top_features) = 5
  /\ scored.result.top_features[1].name = "kde_density"
  /\ scored.result.top_features[1].contribution > scored.result.top_features[2].contribution

(***************************************************************************)
(* Properties of the ingest pipeline                                        *)
(***************************************************************************)
Emitted(t) == t.fused /\ ~IsNone(t.alert_data)

\* Two events with the same (location_id, primary domain) key, weighted
\* scores less than 0.15 apart, both fused less than the window apart.
SameKeyNearScores(a, b) ==
  /\ a.fused /\ b.fused
  /\ Truthy(a.event.location_id)
  /\ a.event.location_id = b.event.location_id
  /\ a.primary_type = b.primary_type
  /\ Abs(a.weighted_score - b.weighted_score) < DuplicateScoreDelta
  /\ Abs(a.fused_at - b.fused_at) < config.dedupe_window_minutes

\* C3: of two such events processed concurrently, interleaved at every
\* await, at most one passes the duplicate check and yields an alert.
C3_AtMostOnePasses ==
  \A i \in Tasks, j \in Tasks :
    (i # j /\ SameKeyNearScores(tasks[i], tasks[j]))
      => ~(Emitted(tasks[i]) /\ Emitted(tasks[j]))

\* Two such events with different scores, the second fused and suppressed
\* at a later minute while the first, which passed, still awaits
\* create_alert.
C3_Witness ==
  \E i \in Tasks, j \in Tasks :
    /\ i # j /\ SameKeyNearScores(tasks[i], tasks[j])
    /\ tasks[i].weighted_score # tasks[j].weighted_score
    /\ Emitted(tasks[i]) /\ tasks[i].pc = "await_create"
    /\ ~Emitted(tasks[j]) /\ tasks[j].fused_at > tasks[i].fused_at

\* Both coroutines were past their first await before either fused, and
\* one of the two was suppressed.
C3_WitnessNoCreate ==
  \E i \in Tasks, j \in Tasks :
    /\ i # j /\ SameKeyNearScores(tasks[i], tasks[j])
    /\ Len(tasks[i].component_scores) = 2 /\ Len(tasks[j].component_scores) = 1
    /\ Emitted(tasks[j]) /\ ~Emitted(tasks[i])

\* The coroutine got an AlertDraft and has ended, and the alerts table does
\* not hold the draft: create_alert returned None after an exception.
CreateFailed(t) ==
  /\ Emitted(t)
  /\ t.pc = "done"
  /\ \A k \in DOMAIN store : store[k] # t.alert_data

\* C26: when create_alert fails for an AlertDraft, the cache entry that
\* fuse_signals wrote for its key stays, and an event of the same key fused
\* afterwards, inside the window and with a score less than 0.15 away, is
\* suppressed although no alert of the key was stored.
C26_FailedStoreStillSuppresses ==
  \A i \in Tasks :
    (CreateFailed(tasks[i]) /\ Truthy(tasks[i].event.location_id)) =>
      /\ CacheKey(tasks[i].event.location_id, tasks[i].primary_type) \in DOMAIN dedupe_cache
      /\ \A j \in Tasks :
           (/\ j # i
            /\ SameKeyNearScores(tasks[i], tasks[j])
            /\ tasks[j].fused_at >= tasks[i].fused_at)
             => ~Emitted(tasks[j])

\* create_alert failed for the first event at minute 0; the second event of
\* the key was fused at a later minute and suppressed; no alert is stored.
C26_Witness ==
  \E i \in Tasks, j \in Tasks :
    /\ i # j
    /\ CreateFailed(tasks[i])
    /\ tasks[i].fused_at = 0
    /\ SameKeyNearScores(tasks[i], tasks[j])
    /\ tasks[j].fused_at > 0
    /\ ~Emitted(tasks[j])
    /\ tasks[j].pc = "done"
    /\ store = <<>>

(***************************************************************************)
(* Properties of one ingest request                                         *)
(***************************************************************************)
\* The fields the normalizer of a domain declares.
DeclaredFields(domain) ==
  CASE domain = "weather" ->
         {"rain_1h", "rain_3h", "rain_6h", "forecast_rain_3h", "temp_max_24h",
          "zscore_recent"}
    [] domain = "crime" ->
         {"incidents_last_1h", "incidents_last_3h", "incidents_last_24h", "hour_of_day",
          "weekday", "kde_density", "neighbor_incidents"}
    [] domain = "fraud" ->
         {"txn_amount", "account_age_days", "txn_count_1h", "unique_devices_24h",
          "avg_txn_amount_7d", "is_new_device_flag"}

\* The documented default of a field: 0 unless stated otherwise, the current
\* hour and weekday for hour_of_day and weekday.
DocumentedDefault(key, current_time) ==
  CASE key = "temp_max_24h" -> Num(200)
    [] key = "account_age_days" -> Num(3650)
    [] key = "unique_devices_24h" -> Num(10)
    [] key = "avg_txn_amount_7d" -> Num(1000)
    [] key = "is_new_device_flag" -> Bool(FALSE)
    [] key = "hour_of_day" -> Num(((current_time \div 60) % 24) * 10)
    [] key = "weekday" -> Num(((current_time \div 1440) % 7) * 10)
    [] OTHER -> Num(0)

\* The coroutine is suspended in a predict call, its features just extracted.
AwaitsPredict(t) == t.pc \in {"await_weather", "await_crime", "await_fraud"}

\* C21: the record a normalizer returns holds exactly the declared fields of
\* its domain, each the payload's value when the payload has the key and the
\* documented default otherwise; other keys of the payload are dropped, and
\* no exception is raised.
C21_NormalizerContract ==
  \A i \in DOMAIN tasks :
    AwaitsPredict(tasks[i]) =>
      LET t == tasks[i]
          payload == t.event.payload
      IN  /\ DOMAIN t.features = DeclaredFields(DomainAt(t.pc))
          /\ \A key \in DOMAIN t.features :
               t.features[key] = IF key \in DOMAIN payload THEN payload[key]
                                 ELSE DocumentedDefault(key, now)
          /\ IsNone(t.error)

\* A crime payload with an undeclared key and without hour_of_day and weekday
\* was normalized on Sunday at 23:59.
C21_Witness ==
  /\ tasks # <<>>
  /\ tasks[1].pc = "await_crime"
  /\ now = 10079
  /\ "reporter" \in DOMAIN tasks[1].event.payload
  /\ ~("hour_of_day" \in DOMAIN tasks[1].event.payload)
  /\ ~("weekday" \in DOMAIN tasks[1].event.payload)
  /\ "incidents_last_1h" \in DOMAIN tasks[1].event.payload
  /\ tasks[1].features.hour_of_day = Num(230)
  /\ tasks[1].features.weekday = Num(60)
  /\ ~("reporter" \in DOMAIN tasks[1].features)

\* The crime score of the coroutine has been computed.
CrimeScored(t) == "crime" \in Keys(t.component_scores)

\* C22: for a crime map without hour_of_day or weekday, MLService.predict
\* called with the raw map gives the score the ingest pipeline (normalizer,
\* then scorer) gives for the same map at the same time.
C22_DirectEqualsPipeline ==
  \A i \in DOMAIN tasks :
    LET t == tasks[i]
        payload == t.event.payload
        direct == predict("crime", payload, now)
    IN  (/\ CrimeScored(t)
         /\ ~({"hour_of_day", "weekday"} \subseteq DOMAIN payload)
         /\ ~Raised(direct))
          => Get(t.component_scores, "crime", 0) = direct.score

\* The answer IngestEventResponse(status="ingested").
Ingested == [status_code |-> 200, body |-> [status |-> "ingested"]]

\* The raw event of the request has been stored.
EventStored(t) == ~(t.pc \in {"received", "rejected"})

\* C30: once the raw event is stored, no exception of process_event_async
\* reaches ingest_event: the request is answered with status "ingested" when
\* the coroutine ends, also after a scorer raised, after fuse_signals raised
\* and after create_alert failed, and in each of these cases no alert is
\* stored.
C30_ProcessingFailureNotPropagated ==
  \A i \in DOMAIN tasks :
    LET t == tasks[i]
    IN  EventStored(t) =>
          /\ t.pc # "failed"
          /\ ingest_response(t) \in {None, Ingested}
          /\ t.pc = "done" => ingest_response(t) = Ingested
          /\ (~IsNone(t.error) \/ CreateFailed(t)) =>
               /\ ingest_response(t) = Ingested
               /\ store = <<>>

\* The scorer raised TypeError on a rain_1h that is no number; the request
\* was answered "ingested" and no alert is stored.
C30_Witness ==
  /\ tasks # <<>>
  /\ tasks[1].error = TypeError
  /\ ~tasks[1].fused
  /\ ingest_response(tasks[1]) = Ingested
  /\ store = <<>>

\* fuse_signals raised KeyError under thresholds that lack a tier.
C30_WitnessFusion ==
  /\ tasks # <<>>
  /\ tasks[1].error = KeyError
  /\ tasks[1].fused
  /\ ingest_response(tasks[1]) = Ingested
  /\ store = <<>>

\* create_alert failed.
C30_WitnessStore ==
  /\ tasks # <<>>
  /\ CreateFailed(tasks[1])
  /\ IsNone(tasks[1].error)
  /\ ingest_response(tasks[1]) = Ingested

(***************************************************************************)
(* Properties of a stream of events                                         *)
(***************************************************************************)
\* The step is a fuse_signals call of the stream.
IsStreamCall == ncalls' = ncalls + 1

\* The call the step makes returned an AlertDraft.
ReturnsDraft == ~IsNone(call'.ret) /\ ~Raised(call'.ret)

\* C23: a fuse_signals call without a location_id and with non-empty
\* component_scores returns an AlertDraft whatever calls preceded it, reads
\* no cache entry and leaves the dedup cache unchanged.
C23_NoLocationNeverDeduplicated ==
  [][(/\ IsStreamCall
      /\ ~Truthy(call'.location_id)
      /\ call'.component_scores # <<>>)
       => /\ ReturnsDraft
          /\ ~call'.had_entry
          /\ dedupe_cache' = dedupe_cache]_vars

\* Three calls without a location_id at the same minute, all with weather as
\* the primary type, have each returned an AlertDraft; nothing is cached.
C23_Witness ==
  /\ ncalls = 3
  /\ now = 0
  /\ ~Truthy(call.location_id)
  /\ Returned
  /\ dedupe_cache = EmptyCache
  /\ DOMAIN emitted = {CacheKey(NoLocation, "weather")}

\* The key of the call the step makes.
StreamKey == CacheKey(call'.location_id, call'.primary_type)

\* The call the step makes has a location_id and an AlertDraft was returned
\* for its key before.
FollowsDraft == IsStreamCall /\ Truthy(call'.location_id) /\ StreamKey \in DOMAIN emitted

\* C24: an AlertDraft returned for a key is at least dedupe_window_minutes
\* later than the AlertDraft last returned for that key, or its final score
\* is at least 0.15 away from that one's; and an event whose score is at
\* least 0.15 away from the last returned AlertDraft of its key is not
\* suppressed, whatever events were suppressed in between.
C24_ConsecutiveAlertsApart ==
  [][FollowsDraft =>
       LET last == emitted[StreamKey]
           far == Abs(call'.weighted_score - last.score) >= DuplicateScoreDelta
       IN  /\ ReturnsDraft =>
                \/ call'.time - last.time >= config.dedupe_window_minutes
                \/ far
           /\ far => ReturnsDraft]_vars

\* Only L1 weather events arrived: after the one emitted at 0.20 the second
\* was suppressed, and the third, at 0.40 and inside the window, is emitted.
C24_Witness ==
  /\ ncalls = 3
  /\ Returned
  /\ call.location_id = "L1"
  /\ call.had_entry
  /\ call.last_score = 200000
  /\ call.weighted_score = 400000
  /\ call.time - call.last_alert_time < config.dedupe_window_minutes
  /\ DOMAIN emitted = {CacheKey("L1", "weather")}
  /\ DOMAIN dedupe_cache = {CacheKey("L1", "weather")}

\* The last event of the stream was suppressed, and the window of the alert
\* that suppresses it ends before the clock's last tick.
SuppressedInsideHorizon ==
  /\ Called
  /\ IsNone(call.ret)
  /\ LET key == CacheKey(call.location_id, call.primary_type)
     IN  /\ key \in DOMAIN emitted
         /\ emitted[key].time + config.dedupe_window_minutes <= MaxTicks * TickMinutes

\* C25: in a stream that repeats one event for ever, an event arriving at
\* least dedupe_window_minutes after the AlertDraft last returned for its key
\* is emitted, however many events were suppressed in between; hence every
\* suppressed event is followed by an emitted one.
C25_SuppressionEnds ==
  /\ [][(/\ ncalls' # ncalls
         /\ StreamKey \in DOMAIN emitted
         /\ now - emitted[StreamKey].time >= config.dedupe_window_minutes)
          => ReturnsDraft]_vars
  /\ (SuppressedInsideHorizon ~> Returned)

\* The event is emitted again with the score of the cached alert, a window
\* after it, as the third event of the stream.
C25_Witness ==
  /\ ncalls = 3
  /\ Returned
  /\ call.had_entry
  /\ call.weighted_score = call.last_score
  /\ call.time - call.last_alert_time >= config.dedupe_window_minutes

\* C27: under the default configuration no event that process_event_async
\* fuses gets severity critical, and none requires human approval: every
\* confidence is at most 0.8, every score at most 1.0, and the score
\* adjusted by the mean confidence is at most 0.75.
C27_PipelineNeverCritical ==
  \A i \in DOMAIN tasks :
    LET t == tasks[i]
        confidence == avg_confidence_of(t.confidences)
    IN  (config = default_config /\ t.fused) =>
          /\ t.severity # "critical"
          /\ ~t.requires_approval
          /\ \A k \in DOMAIN t.confidences : t.confidences[k][2] <= 80
          /\ \A k \in DOMAIN t.component_scores : t.component_scores[k][2] <= 10000
          /\ t.weighted_score * confidence.num <= 75 * 1000000 * confidence.den

\* An event naming all three domains scored 1.0 in each of them, with the
\* confidences 0.7, 0.8 and 0.75: the adjusted score is 0.75 and the
\* severity is warning.
C27_Witness ==
  /\ tasks # <<>>
  /\ config = default_config
  /\ tasks[1].fused
  /\ tasks[1].component_scores = <<<<"weather", 10000>>, <<"crime", 10000>>, <<"fraud", 10000>>>>
  /\ tasks[1].confidences = <<<<"weather", 70>>, <<"crime", 80>>, <<"fraud", 75>>>>
  /\ tasks[1].weighted_score = 1000000
  /\ tasks[1].severity = "warning"

\* Ranks of the severities, info lowest.
SeverityRank(severity) ==
  CASE severity = "info" -> 0
    [] severity = "watch" -> 1
    [] severity = "warning" -> 2
    [] severity = "critical" -> 3

\* C28: whether a call is suppressed, and what it leaves in the cache, is
\* the same whatever confidences it is given (and so whatever severity it
\* computes); an event of a cached key whose weighted score is less than
\* 0.15 from the cached one is suppressed inside the window even when its
\* severity is higher than that of the alert last returned for the key.
C28_DuplicateIgnoresConfidence ==
  [][IsStreamCall =>
       /\ \A cf \in StreamConfidences :
            \E other \in {fuse_signals(config, dedupe_cache, now, call'.component_scores, cf,
                                       call'.evidence, call'.location_id)} :
              /\ IsNone(other.ret) = IsNone(call'.ret)
              /\ other.cache = dedupe_cache'
       /\ (/\ FollowsDraft
           /\ now - emitted[StreamKey].time < config.dedupe_window_minutes
           /\ Abs(call'.weighted_score - emitted[StreamKey].score) < DuplicateScoreDelta)
            => IsNone(call'.ret)]_vars

\* A critical event was suppressed by an alert of its key that was emitted
\* as a watch.
C28_Witness ==
  /\ Called
  /\ IsNone(call.ret)
  /\ call.severity = "critical"
  /\ LET key == CacheKey(call.location_id, call.primary_type)
     IN  /\ key \in DOMAIN emitted
         /\ emitted[key].severity = "watch"
         /\ SeverityRank(call.severity) > SeverityRank(emitted[key].severity)

(***************************************************************************)
(* Properties of the cache across keys                                      *)
(***************************************************************************)
\* C29: a fuse_signals call removes no key from the dedup cache and leaves
\* the entry of every key other than its own as it was; a call is suppressed
\* only by an entry of its own (location_id, primary_type) key, never by an
\* alert of another location or of another primary domain.
C29_OtherKeysUntouched ==
  [][IsCall =>
       LET key == CacheKey(call'.location_id, call'.primary_type)
       IN  /\ DOMAIN dedupe_cache \subseteq DOMAIN dedupe_cache'
           /\ \A k \in DOMAIN dedupe_cache :
                k # key => dedupe_cache'[k] = dedupe_cache[k]
           /\ (call'.component_scores # <<>> /\ ~(key \in DOMAIN dedupe_cache))
                => ~IsNone(call'.ret)]_vars

\* Two alerts in the same minute, less than 0.15 apart: the second, for
\* another location or another primary domain, was emitted, and the cache
\* holds both keys.
C29_Witness ==
  /\ ncalls = 2
  /\ Returned
  /\ Truthy(call.location_id)
  /\ ~call.had_entry
  /\ Cardinality(DOMAIN dedupe_cache) = 2
  /\ \A k \in DOMAIN dedupe_cache :
       /\ dedupe_cache[k].time = call.time
       /\ Abs(dedupe_cache[k].score - call.weighted_score) < DuplicateScoreDelta
====
